---- MODULE Spec2Model ----
(***************************************************************************)
(* Model of the OpenSubtitles scraper's decision logic:                    *)
(*   - title normalisation            (src/src/utils/helpers.py)           *)
(*   - search-result filter / ranker  (src/src/core/scraper.py)            *)
(*   - subtitle language filter       (src/src/core/scraper.py,            *)
(*                                     src/src/api/routes.py)              *)
(*   - archive extraction / selection (src/src/parsers/download_parser.py) *)
(*   - subtitle decoding / normalising(src/src/parsers/download_parser.py) *)
(*   - IMDB title cache               (src/src/utils/imdb_lookup.py)       *)
(*   - admission gate of the API      (src/src/api/routes.py)              *)
(*   - IMDB page title extraction     (src/src/utils/imdb_lookup.py)       *)
(*   - subtitle record construction   (src/src/parsers/subtitle_parser.py) *)
(*   - search and download flows      (src/src/core/scraper.py)            *)
(*   - transport: SessionManager      (src/src/core/session_manager.py)    *)
(*                                                                         *)
(* Text is a sequence of one-character strings.  Python's None, 0 and ''   *)
(* are all falsy, and the code below only ever tests its optional          *)
(* arguments and fields for truthiness: an absent year is 0, an absent     *)
(* identifier, kind or preferred filename is the empty text.               *)
(***************************************************************************)
EXTENDS Integers, Sequences, FiniteSets, TLC

VARIABLES
    \* ranker (one search: the arguments are those of search_movies)
    results,            \* the SearchResult objects handed to the ranker
    filtered,           \* the list it returned, as references into results
    query,              \* arguments of the search
    year,
    imdb_id,
    kind,
    rank_calls,         \* calls of _filter_search_results on this list so far
    by_imdb_id,         \* TRUE: the list is the result of _search_by_imdb_id
    \* subtitle listing
    page_subtitles,     \* SubtitleInfo objects parsed from the listing page
    languages,          \* the languages argument of the last get_subtitles call
    subtitles,          \* what that call returned, as references into page_subtitles
    listing,            \* "idle", "returned", "ScrapingError" or "skipped"
    route,              \* "none", "direct" (get_subtitles) or "bazarr" (bazarr_search)
    criterion,          \* the Bazarr search criterion, when route = "bazarr"
    \* archive extraction
    zip_members,        \* the members of the downloaded archive
    zip_valid,          \* FALSE: zipfile.ZipFile raises BadZipFile
    preferred_filename, \* argument of the last extract_subtitle_from_zip call
    subtitle_files,     \* the payloads that call collected
    selected,           \* the payload it returned, <<>> if none
    extraction,         \* "idle", "returned" or "DownloadError"
    \* subtitle decoding
    content,            \* the bytes handed to _decode_subtitle_content
    decode_state,       \* "idle", "returned" or "raised"
    decode_encoding,    \* the encoding that decoded, "replace" for the fallback
    decoded,            \* the text returned, as code points
    \* IMDB title cache (IMDBLookupService)
    cache,              \* self.cache: identifier -> [title, timestamp]
    now,                \* time.time(), in seconds
    callers,            \* the threads calling lookup_title
    call,               \* per caller: the lookup_title call it is in or was last in
    ncalls,             \* lookup_title calls started so far
    requests,           \* per identifier: session_manager.get calls issued for it
    calls_at,           \* per identifier: the times of the lookups that passed validation
    writes,             \* the entries that lookups stored: <<identifier, title, timestamp>>
    failed,             \* the identifiers whose latest external lookup gave no title
    \* admission gate (request_limit)
    MAX_INFLIGHT_REQUESTS,  \* configuration, fixed when the module is loaded
    REQUEST_QUEUE_TIMEOUT,  \* configuration, in units of the waiting clock
    permits,            \* the value of _request_semaphore
    req,                \* per API request: route, position, time waited, response
    \* IMDB page title extraction
    page,               \* the elements of the IMDB page that the strategies look at
    extract_state,      \* "idle", "parsed" or "returned"
    extracted,          \* what _extract_title_from_html returned
    \* SubtitleInfo construction
    info_filename,      \* the filename argument of SubtitleInfo.__init__
    info_language,      \* the language argument
    info,               \* the fields of the constructed object, NoInfo before
    \* title normalisation
    norm_input,         \* the argument of normalize_title
    normalized,         \* what normalize_title returned for it
    renormalized,       \* what normalize_title returned for that result
    norm_state,         \* "idle", "once" or "twice"
    \* search_movies / search_tv_shows
    search_pc,          \* "idle", "id_search", "resolve", "autocomplete", "full", "returned"
    search_args,        \* query, year, imdb_id of the call, kind of the method
    search_query,       \* the local variable query
    search_log,         \* the upstream steps taken so far, in order
    search_ranked,      \* the last call of the ranker: the scored objects and the list
    \* download_subtitle and the responses of the scraper's operations
    dl_pc,              \* "idle", "direct", "fallback", "download", "returned", "raised"
    dl_has_url,         \* subtitle_info.download_url is set
    dl_log,             \* the steps of the call and how each ended
    dl_payloads,        \* the payloads the call returned
    dl_error,           \* the type of the exception that left the call, "none" if none
    obtained,           \* responses the operations got from the session manager
    closed,             \* responses on which close() was called
    \* SessionManager
    request_semaphore,  \* the value of self._request_semaphore
    last_request_time,  \* self.last_request_time
    session,            \* self.session: 0 for None, else the number of the session object
    sessions,           \* session objects created so far
    clock,              \* time.time(), in half seconds
    worker,             \* per thread: its make_request call
    sent,               \* the upstream requests started: thread, time, session
    closures            \* the closes of a session: who closed which, and who was using it

rankVars == <<results, filtered, query, year, imdb_id, kind, rank_calls, by_imdb_id>>
langVars == <<page_subtitles, languages, subtitles, listing, route, criterion>>
zipVars == <<zip_members, zip_valid, preferred_filename, subtitle_files, selected, extraction>>

decVars == <<content, decode_state, decode_encoding, decoded>>

\* the components added to the first three
cacheVars == <<cache, now, callers, call, ncalls, requests, calls_at, writes, failed>>
gateVars == <<MAX_INFLIGHT_REQUESTS, REQUEST_QUEUE_TIMEOUT, permits, req>>
titleVars == <<page, extract_state, extracted>>
coreVars == <<rankVars, langVars, zipVars>>
infoVars == <<info_filename, info_language, info>>
normVars == <<norm_input, normalized, renormalized, norm_state>>
searchVars == <<search_pc, search_args, search_query, search_log, search_ranked>>
dlVars == <<dl_pc, dl_has_url, dl_log, dl_payloads, dl_error, obtained, closed>>
smVars == <<request_semaphore, last_request_time, session, sessions, clock, worker, sent, closures>>
moreVars == <<infoVars, normVars, searchVars, dlVars, smVars>>
restVars == <<decVars, cacheVars, gateVars, titleVars, moreVars>>
oldVars == <<coreVars, decVars, cacheVars, gateVars, titleVars>>

vars == <<coreVars, restVars>>

----------------------------------------------------------------------------
(* Bounds *)

MaxResults == 2      \* longest candidate list handed to the ranker
MaxRankCalls == 2    \* calls of the ranker on one candidate list
MaxSubtitles == 3    \* longest subtitle listing
MaxLanguages == 2    \* longest list of requested languages
MaxMembers == 3      \* most members of an archive
MaxBytes == 4        \* most bytes of a subtitle file
MaxCalls == 3        \* most lookup_title calls of a single caller
MaxRaceCalls == 2    \* most lookup_title calls of callers that race
MaxTicks == 2        \* most advances of the clock
TimeStep == 1800     \* seconds per advance of the clock
MaxRequests == 3     \* most API requests
MaxInflight == 2     \* largest MAX_INFLIGHT_REQUESTS
MaxQueueTimeout == 2 \* largest REQUEST_QUEUE_TIMEOUT
MaxFilename == 3     \* longest filename given to SubtitleInfo
MaxTitle == 3        \* longest text given to normalize_title
MaxCandidates == 2   \* most results on one search page
MaxResponses == 3    \* responses after which no further operation is started
MaxClock == 3        \* last instant of the transport clock, in half seconds

----------------------------------------------------------------------------
(* Characters and text helpers *)

UpperToLower ==
    ("A" :> "a") @@ ("B" :> "b") @@ ("C" :> "c") @@ ("D" :> "d") @@ ("E" :> "e") @@
    ("F" :> "f") @@ ("G" :> "g") @@ ("H" :> "h") @@ ("I" :> "i") @@ ("J" :> "j") @@
    ("K" :> "k") @@ ("L" :> "l") @@ ("M" :> "m") @@ ("N" :> "n") @@ ("O" :> "o") @@
    ("P" :> "p") @@ ("Q" :> "q") @@ ("R" :> "r") @@ ("S" :> "s") @@ ("T" :> "t") @@
    ("U" :> "u") @@ ("V" :> "v") @@ ("W" :> "w") @@ ("X" :> "x") @@ ("Y" :> "y") @@
    ("Z" :> "z")

UpperChars == DOMAIN UpperToLower
LowerChars == {UpperToLower[c] : c \in UpperChars}
DigitChars == {"0", "1", "2", "3", "4", "5", "6", "7", "8", "9"}

\* str.lower(), one character
LowerChar(c) == IF c \in UpperChars THEN UpperToLower[c] ELSE c

\* regex class \w: letters, digits and the underscore
WordChars == UpperChars \cup LowerChars \cup DigitChars \cup {"_"}

IsWordChar(c) == c \in WordChars

\* regex class \s, and the characters str.strip() and str.split() treat as blank
SpaceChars == {" ", "\t", "\n", "\r"}

IsSpaceChar(c) == c \in SpaceChars

MapChars(s, Op(_)) == [i \in 1..Len(s) |-> Op(s[i])]

\* str.lower()
Lower(s) == MapChars(s, LowerChar)

\* re.sub(r'[^\w\s]', ' ', title): every other character becomes a space
PunctToSpace(c) == IF IsWordChar(c) \/ IsSpaceChar(c) THEN c ELSE " "

\* re.sub(r'\s+', ' ', title): each maximal run of whitespace becomes one space
RECURSIVE CollapseSpaces(_)
CollapseSpaces(s) ==
    IF s = <<>> THEN <<>>
    ELSE IF IsSpaceChar(Head(s))
         THEN IF Len(s) > 1 /\ IsSpaceChar(s[2])
              THEN CollapseSpaces(Tail(s))
              ELSE <<" ">> \o CollapseSpaces(Tail(s))
         ELSE <<Head(s)>> \o CollapseSpaces(Tail(s))

\* str.strip(chars): drop the characters of `chars` at both ends
RECURSIVE LStrip(_, _)
LStrip(s, chars) ==
    IF s # <<>> /\ Head(s) \in chars THEN LStrip(Tail(s), chars) ELSE s

RECURSIVE RStrip(_, _)
RStrip(s, chars) ==
    IF s # <<>> /\ s[Len(s)] \in chars
    THEN RStrip(SubSeq(s, 1, Len(s) - 1), chars)
    ELSE s

StripChars(s, chars) == RStrip(LStrip(s, chars), chars)

\* str.strip()
Strip(s) == StripChars(s, SpaceChars)

\* faulty variant: punctuation is replaced after the whitespace was collapsed
normalize_title_late_punct(title) ==
    MapChars(Strip(CollapseSpaces(Lower(title))), PunctToSpace)

\* helpers.normalize_title
normalize_title(title) ==
    LET lowered == Lower(title)
        cleaned == MapChars(lowered, PunctToSpace)
    IN  Strip(CollapseSpaces(cleaned))

\* Python's `a in b` on strings
IsSubstring(a, b) ==
    \E i \in 0..(Len(b) - Len(a)) : SubSeq(b, i + 1, i + Len(a)) = a

\* str.endswith
EndsWith(s, suffix) ==
    Len(s) >= Len(suffix) /\ SubSeq(s, Len(s) - Len(suffix) + 1, Len(s)) = suffix

\* set(s.split()): the whitespace-separated words of s
RECURSIVE SplitWords(_, _)
SplitWords(s, cur) ==
    IF s = <<>> THEN (IF cur = <<>> THEN {} ELSE {cur})
    ELSE IF IsSpaceChar(Head(s))
         THEN (IF cur = <<>> THEN {} ELSE {cur}) \cup SplitWords(Tail(s), <<>>)
         ELSE SplitWords(Tail(s), Append(cur, Head(s)))

WordSet(s) == SplitWords(s, <<>>)

\* s.split(sep) for a one-character separator: never an empty list, ''.split(',') is ['']
RECURSIVE SplitOn(_, _, _)
SplitOn(s, sep, cur) ==
    IF s = <<>> THEN <<cur>>
    ELSE IF Head(s) = sep
         THEN <<cur>> \o SplitOn(Tail(s), sep, <<>>)
         ELSE SplitOn(Tail(s), sep, Append(cur, Head(s)))

Split(s, sep) == SplitOn(s, sep, <<>>)

\* the references 1..n of a list of n objects, in list order
Refs(list) == [i \in 1..Len(list) |-> i]

----------------------------------------------------------------------------
(* Scores.  relevance_score is a number; (overlap / total) * 60 need not   *)
(* be an integer, so a score is the exact fraction <<num, den>>, den > 0.  *)
(* <<>> is an object that has no relevance_score attribute yet.            *)

Unset == <<>>

ScoreInt(n) == <<n, 1>>
ScoreAdd(s, n) == <<s[1] + n * s[2], s[2]>>
ScoreGE(s, n) == s[1] >= n * s[2]
ScoreEq(s, t) == s[1] * t[2] = t[1] * s[2]
ScoreGT(s, t) == s[1] * t[2] > t[1] * s[2]

\* getattr(x, 'relevance_score', 0)
ScoreKey(c) == IF c.relevance_score = Unset THEN ScoreInt(0) ELSE c.relevance_score

----------------------------------------------------------------------------
(* The ranker: OpenSubtitlesScraper._filter_search_results *)

Abs(n) == IF n < 0 THEN -n ELSE n

\* `if kind and result.kind != kind: continue`
PassesKind(result, k) == ~(k # <<>> /\ result.kind # k)

\* faulty variant: a result that has no identifier is dropped too
PassesImdbStrict(result, id) == ~(id # <<>> /\ result.imdb_id # id)

\* `if imdb_id and result.imdb_id and result.imdb_id != imdb_id: continue`
PassesImdb(result, id) == ~(id # <<>> /\ result.imdb_id # <<>> /\ result.imdb_id # id)

\* faulty variant: the difference is taken without abs()
PassesYearSigned(result, y) == ~(y # 0 /\ result.year # 0 /\ result.year - y > 1)

\* `if year and result.year: ... if year_diff > 1: continue`
PassesYear(result, y) == ~(y # 0 /\ result.year # 0 /\ Abs(result.year - y) > 1)

\* exact match, partial match, word overlap
BaseScore(normalized_title, normalized_query) ==
    IF normalized_title = normalized_query THEN ScoreInt(100)
    ELSE IF IsSubstring(normalized_query, normalized_title)
            \/ IsSubstring(normalized_title, normalized_query) THEN ScoreInt(80)
    ELSE LET query_words == WordSet(normalized_query)
             title_words == WordSet(normalized_title)
             overlap == Cardinality(query_words \cap title_words)
             total_words == Cardinality(query_words \cup title_words)
         IN  IF total_words > 0 THEN <<overlap * 60, total_words>> ELSE ScoreInt(0)

\* faulty variant: the base score is added to the score the object carries
RelevanceScoreAccumulating(result, normalized_query, y, id) ==
    LET base == BaseScore(normalize_title(result.title), normalized_query)
        carried == ScoreKey(result)
        sum == <<base[1] * carried[2] + carried[1] * base[2], base[2] * carried[2]>>
        with_year == IF y # 0 /\ result.year = y THEN ScoreAdd(sum, 10) ELSE sum
    IN  IF id # <<>> /\ result.imdb_id = id THEN ScoreAdd(with_year, 20) ELSE with_year

\* the score assigned to one result that passed the filters: the base score
\* replaces whatever the object carried, then the boosts are added
RelevanceScore(result, normalized_query, y, id) ==
    LET base == BaseScore(normalize_title(result.title), normalized_query)
        with_year == IF y # 0 /\ result.year = y THEN ScoreAdd(base, 10) ELSE base
    IN  IF id # <<>> /\ result.imdb_id = id THEN ScoreAdd(with_year, 20) ELSE with_year

\* faulty variant: the threshold is exclusive
RelevantStrict(score) == score[1] > 30 * score[2]

\* `if result.relevance_score >= 30`
Relevant(score) == ScoreGE(score, 30)

\* faulty variant: an unstable sort, x goes in front of the elements of equal key
RECURSIVE InsertByScoreUnstable(_, _, _)
InsertByScoreUnstable(sorted, x, rs) ==
    IF sorted = <<>> THEN <<x>>
    ELSE IF ~ScoreGT(ScoreKey(rs[Head(sorted)]), ScoreKey(rs[x]))
         THEN <<x>> \o sorted
         ELSE <<Head(sorted)>> \o InsertByScoreUnstable(Tail(sorted), x, rs)

\* list.sort(key=..., reverse=True): stable, descending.  x goes behind every
\* element whose key is not smaller than its own.
RECURSIVE InsertByScore(_, _, _)
InsertByScore(sorted, x, rs) ==
    IF sorted = <<>> THEN <<x>>
    ELSE IF ScoreGT(ScoreKey(rs[x]), ScoreKey(rs[Head(sorted)]))
         THEN <<x>> \o sorted
         ELSE <<Head(sorted)>> \o InsertByScore(Tail(sorted), x, rs)

RECURSIVE SortByScore(_, _)
SortByScore(refs, rs) ==
    IF refs = <<>> THEN <<>>
    ELSE InsertByScore(SortByScore(SubSeq(refs, 1, Len(refs) - 1), rs), refs[Len(refs)], rs)

\* faulty variant: a result that agrees in every field with an earlier result that
\* was kept is left out
filter_search_results_dedup(rs, q, y, id, k) ==
    LET normalized_query == normalize_title(q)
        passes(i) == PassesKind(rs[i], k) /\ PassesImdb(rs[i], id) /\ PassesYear(rs[i], y)
        scored == [i \in 1..Len(rs) |->
                     IF passes(i)
                     THEN [rs[i] EXCEPT !.relevance_score =
                                 RelevanceScore(rs[i], normalized_query, y, id)]
                     ELSE rs[i]]
        kept(i) == passes(i) /\ Relevant(scored[i].relevance_score)
        seen(i) == \E j \in 1..(i - 1) :
                      kept(j) /\ [rs[j] EXCEPT !.relevance_score = Unset]
                                   = [rs[i] EXCEPT !.relevance_score = Unset]
        fresh(i) == kept(i) /\ ~seen(i)
        appended == SelectSeq(Refs(rs), fresh)
    IN  IF rs = <<>>
        THEN [results |-> rs, filtered |-> <<>>]
        ELSE [results |-> scored, filtered |-> SortByScore(appended, scored)]

\* The whole call.  Returns the result objects as the loop leaves them and the
\* returned list, as references into them.
filter_search_results(rs, q, y, id, k) ==
    LET normalized_query == normalize_title(q)
        passes(i) == PassesKind(rs[i], k) /\ PassesImdb(rs[i], id) /\ PassesYear(rs[i], y)
        scored == [i \in 1..Len(rs) |->
                     IF passes(i)
                     THEN [rs[i] EXCEPT !.relevance_score =
                                 RelevanceScore(rs[i], normalized_query, y, id)]
                     ELSE rs[i]]
        kept(i) == passes(i) /\ Relevant(scored[i].relevance_score)
        appended == SelectSeq(Refs(rs), kept)
    IN  IF rs = <<>>
        THEN [results |-> rs, filtered |-> <<>>]
        ELSE [results |-> scored, filtered |-> SortByScore(appended, scored)]

\* _search_by_imdb_id, after the page has been parsed: the identifier is
\* filled in where it is missing, then the kind filter is applied
search_by_imdb_id(rs, id, k) ==
    LET filled == [i \in 1..Len(rs) |->
                     IF rs[i].imdb_id = <<>> THEN [rs[i] EXCEPT !.imdb_id = id] ELSE rs[i]]
        OfKind(r) == r.kind = k
    IN  IF k # <<>> THEN SelectSeq(filled, OfKind) ELSE filled

----------------------------------------------------------------------------
(* Inputs of the ranker *)

tt1 == <<"t", "t", "1">>
tt2 == <<"t", "t", "2">>
movie == <<"m", "o", "v", "i", "e">>
episode == <<"e", "p", "i", "s", "o", "d", "e">>

\* raw titles; their normal forms are "ab c", "c ab", "c d", "c c"
Titles == { <<"a", "b", ":", " ", "c">>,
            <<"c", "\t", "A", "B">>,
            <<"c", " ", "d">>,
            <<"C", "-", "c">> }

\* year, identifier, url and kind as the page parser fills them in
Profiles == { [year |-> 2009, imdb_id |-> tt1,  url |-> <<"/", "1">>, kind |-> movie],
              [year |-> 2010, imdb_id |-> <<>>, url |-> <<"/", "2">>, kind |-> episode],
              [year |-> 0,    imdb_id |-> tt2,  url |-> <<>>,         kind |-> movie] }

\* search_parser.SearchResult.__init__: no relevance_score attribute yet
SearchResult(title, p) ==
    [title |-> title, year |-> p.year, imdb_id |-> p.imdb_id, url |-> p.url,
     kind |-> p.kind, relevance_score |-> Unset]

\* queries; their normal forms are "ab c", "ab" and "" (blank)
Queries == { <<"A", "B", " ", " ", "c">>, <<"A", "b">>, <<" ">> }
ReqYears == {0, 2008, 2009, 2011}
ReqIds == {<<>>, tt1}
ReqKinds == {<<>>, movie}

----------------------------------------------------------------------------
(* Ranker actions *)

RankIdle ==
    /\ results = <<>>
    /\ filtered = <<>>
    /\ rank_calls = 0
    /\ by_imdb_id = FALSE
    /\ query = <<>>
    /\ year = 0
    /\ imdb_id = <<>>
    /\ kind = <<>>

\* a search starts: its arguments are fixed, no page has been parsed yet
InitRank ==
    /\ results = <<>>
    /\ filtered = <<>>
    /\ rank_calls = 0
    /\ by_imdb_id = FALSE
    /\ query \in Queries
    /\ year \in ReqYears
    /\ imdb_id \in ReqIds
    /\ kind \in ReqKinds

\* the page parser appends one more SearchResult to the list being built
ParseResult ==
    /\ rank_calls = 0
    /\ ~by_imdb_id
    /\ Len(results) < MaxResults
    /\ \E t \in Titles, p \in Profiles : results' = Append(results, SearchResult(t, p))
    /\ UNCHANGED <<filtered, query, year, imdb_id, kind, rank_calls, by_imdb_id>>
    /\ UNCHANGED <<langVars, zipVars, restVars>>

\* the list was parsed from the identifier search page: _search_by_imdb_id
\* gives the requested identifier to every result that has none and keeps
\* the results of the requested kind
SearchByImdbId ==
    /\ rank_calls = 0
    /\ ~by_imdb_id
    /\ imdb_id # <<>>
    /\ results' = search_by_imdb_id(results, imdb_id, kind)
    /\ by_imdb_id' = TRUE
    /\ UNCHANGED <<filtered, query, year, imdb_id, kind, rank_calls>>
    /\ UNCHANGED <<langVars, zipVars, restVars>>

\* one call of _filter_search_results on the list, with the search's arguments
FilterSearchResults ==
    /\ rank_calls < MaxRankCalls
    /\ LET r == filter_search_results(results, query, year, imdb_id, kind)
       IN  /\ results' = r.results
           /\ filtered' = r.filtered
    /\ rank_calls' = rank_calls + 1
    /\ UNCHANGED <<query, year, imdb_id, kind, by_imdb_id>>
    /\ UNCHANGED <<langVars, zipVars, restVars>>

----------------------------------------------------------------------------
(* Subtitle listing: OpenSubtitlesScraper.get_subtitles and the Bazarr route *)

\* the dict lang_mapping of get_subtitles
lang_mapping ==
    (<<"e", "n", "g">> :> <<"e", "n">>) @@ (<<"e", "n", "g", "l", "i", "s", "h">> :> <<"e", "n">>) @@
    (<<"h", "u", "n">> :> <<"h", "u">>) @@ (<<"h", "u", "n", "g", "a", "r", "i", "a", "n">> :> <<"h", "u">>) @@
    (<<"s", "p", "a">> :> <<"e", "s">>) @@ (<<"s", "p", "a", "n", "i", "s", "h">> :> <<"e", "s">>) @@
    (<<"f", "r", "e">> :> <<"f", "r">>) @@ (<<"f", "r", "e", "n", "c", "h">> :> <<"f", "r">>) @@
    (<<"g", "e", "r">> :> <<"d", "e">>) @@ (<<"g", "e", "r", "m", "a", "n">> :> <<"d", "e">>) @@
    (<<"i", "t", "a">> :> <<"i", "t">>) @@ (<<"i", "t", "a", "l", "i", "a", "n">> :> <<"i", "t">>) @@
    (<<"p", "o", "r">> :> <<"p", "t">>) @@ (<<"p", "o", "r", "t", "u", "g", "u", "e", "s", "e">> :> <<"p", "t">>) @@
    (<<"r", "u", "s">> :> <<"r", "u">>) @@ (<<"r", "u", "s", "s", "i", "a", "n">> :> <<"r", "u">>) @@
    (<<"c", "h", "i">> :> <<"z", "h">>) @@ (<<"c", "h", "i", "n", "e", "s", "e">> :> <<"z", "h">>) @@
    (<<"j", "p", "n">> :> <<"j", "a">>) @@ (<<"j", "a", "p", "a", "n", "e", "s", "e">> :> <<"j", "a">>) @@
    (<<"k", "o", "r">> :> <<"k", "o">>) @@ (<<"k", "o", "r", "e", "a", "n">> :> <<"k", "o">>) @@
    (<<"a", "r", "a">> :> <<"a", "r">>) @@ (<<"a", "r", "a", "b", "i", "c">> :> <<"a", "r">>) @@
    (<<"d", "u", "t">> :> <<"n", "l">>) @@ (<<"d", "u", "t", "c", "h">> :> <<"n", "l">>) @@
    (<<"p", "o", "l">> :> <<"p", "l">>) @@ (<<"p", "o", "l", "i", "s", "h">> :> <<"p", "l">>)

\* lang_mapping.get(lang_lower, lang_lower)
MappedLang(lang_lower) ==
    IF lang_lower \in DOMAIN lang_mapping THEN lang_mapping[lang_lower] ELSE lang_lower

\* the set normalized_langs built from the requested languages
NormalizedLangs(langs) ==
    UNION { {MappedLang(Lower(langs[i])), Lower(langs[i])} : i \in 1..Len(langs) }

\* faulty variant: the record's language code is compared as it is, not lowercased
FilterByLanguageCaseSensitive(subs, langs) ==
    LET normalized_langs == NormalizedLangs(langs)
        accepted(i) == subs[i].language \in normalized_langs
    IN  SelectSeq(Refs(subs), accepted)

\* `[sub for sub in subtitles if sub.language.lower() in normalized_langs]`
FilterByLanguage(subs, langs) ==
    LET normalized_langs == NormalizedLangs(langs)
        accepted(i) == Lower(subs[i].language) \in normalized_langs
    IN  SelectSeq(Refs(subs), accepted)

\* `if languages:` is false for None and for the empty list
LanguagesGiven(langs) == langs.given /\ langs.list # <<>>

\* get_subtitles once the page has been fetched and parsed
get_subtitles(subs, langs) ==
    IF LanguagesGiven(langs) THEN FilterByLanguage(subs, langs.list) ELSE Refs(subs)

NoLanguages == [given |-> FALSE, list |-> <<>>]
LanguageList(list) == [given |-> TRUE, list |-> list]

\* routes.bazarr_search: criterion.get('sublanguageid', '').split(',')
BazarrLanguages(c) ==
    LET sublanguageid == IF c.has_sublanguageid THEN c.sublanguageid ELSE <<>>
    IN  LanguageList(Split(sublanguageid, ","))

----------------------------------------------------------------------------
(* Inputs of the subtitle listing *)

\* language codes the listing parser produces: two characters taken from the
\* subtitle's URL, "en" when it finds none
PageLanguages == { <<"e", "n">>, <<"f", "r">>, <<"H", "U">>, <<"p", "b">> }

\* subtitle_parser.SubtitleInfo, the fields the listing reads
SubtitleInfo(language) == [language |-> language]

\* language tokens a caller may request
LanguageTokens == { <<"e", "n", "g">>, <<"E", "N">>, <<"F", "r", "e", "n", "c", "h">>,
                    <<"h", "u", "n">>, <<"p", "b">> }

LanguageLists == UNION { [1..n -> LanguageTokens] : n \in 0..MaxLanguages }

\* the 'sublanguageid' of a Bazarr search criterion
SubLanguageIds == { <<"e", "n", "g">>,
                    <<"e", "n", "g", ",", "f", "r", "e">>,
                    <<"a", "l", "l">>,
                    <<>> }

NoCriterion == [has_sublanguageid |-> FALSE, sublanguageid |-> <<>>]

Criteria == { NoCriterion }
            \cup { [has_sublanguageid |-> TRUE, sublanguageid |-> s] : s \in SubLanguageIds }

----------------------------------------------------------------------------
(* Subtitle listing actions *)

LangIdle ==
    /\ page_subtitles = <<>>
    /\ languages = NoLanguages
    /\ subtitles = <<>>
    /\ listing = "idle"
    /\ route = "none"
    /\ criterion = NoCriterion

\* the listing parser appends one more SubtitleInfo
ParseSubtitleRow ==
    /\ listing = "idle"
    /\ Len(page_subtitles) < MaxSubtitles
    /\ \E l \in PageLanguages : page_subtitles' = Append(page_subtitles, SubtitleInfo(l))
    /\ UNCHANGED <<languages, subtitles, listing, route, criterion>>
    /\ UNCHANGED <<rankVars, zipVars, restVars>>

\* the body of get_subtitles: the page request either raises, and get_subtitles
\* raises ScrapingError, or the parsed listing is filtered and returned
GetSubtitlesCall(langs, fetched, via) ==
    /\ languages' = langs
    /\ route' = via
    /\ IF fetched
       THEN /\ subtitles' = get_subtitles(page_subtitles, langs)
            /\ listing' = "returned"
       ELSE /\ subtitles' = <<>>
            /\ listing' = "ScrapingError"
    /\ UNCHANGED page_subtitles
    /\ UNCHANGED <<rankVars, zipVars, restVars>>

\* a direct call of get_subtitles (POST /subtitles, the provider): languages
\* is None or a list
GetSubtitles ==
    /\ listing = "idle"
    /\ \E langs \in {NoLanguages} \cup {LanguageList(l) : l \in LanguageLists},
          fetched \in BOOLEAN :
         /\ GetSubtitlesCall(langs, fetched, "direct")
         /\ UNCHANGED criterion

\* bazarr_search for one criterion with an 'imdbid': when the search found a
\* title, its listing is requested with the criterion's languages
BazarrSearch ==
    /\ listing = "idle"
    /\ \E c \in Criteria, found \in BOOLEAN, fetched \in BOOLEAN :
         /\ criterion' = c
         /\ IF found
            THEN GetSubtitlesCall(BazarrLanguages(c), fetched, "bazarr")
            ELSE /\ listing' = "skipped"
                 /\ route' = "bazarr"
                 /\ UNCHANGED <<page_subtitles, languages, subtitles>>
                 /\ UNCHANGED <<rankVars, zipVars, restVars>>

----------------------------------------------------------------------------
(* Archive extraction: DownloadParser.extract_subtitle_from_zip *)

\* helpers.sanitize_filename keeps at most this many characters
MaxFilenameLength == 255

\* helpers.sanitize_filename
sanitize_filename(filename) ==
    LET Replace(c) == IF c \in {"<", ">", ":", "\"", "/", "\\", "|", "?", "*"} THEN "_" ELSE c
        stripped == StripChars(MapChars(filename, Replace), {" ", "."})
    IN  IF Len(stripped) > MaxFilenameLength
        THEN SubSeq(stripped, 1, MaxFilenameLength)
        ELSE stripped

SubtitleExtensions ==
    { <<".", "s", "r", "t">>, <<".", "s", "u", "b">>, <<".", "a", "s", "s">>,
      <<".", "v", "t", "t">>, <<".", "s", "s", "a">> }

\* re.search(r'\.(srt|sub|ass|vtt|ssa)$', filename, re.I); `$` also matches
\* just before a final line feed
HasSubtitleExtension(filename) ==
    LET lowered == Lower(filename)
        body == IF lowered # <<>> /\ lowered[Len(lowered)] = "\n"
                THEN SubSeq(lowered, 1, Len(lowered) - 1)
                ELSE lowered
    IN  \E ext \in SubtitleExtensions : EndsWith(lowered, ext) \/ EndsWith(body, ext)

\* ZipInfo.is_dir(): the member's name ends with a slash
IsDir(member) == member.filename # <<>> /\ member.filename[Len(member.filename)] = "/"

\* zip_file.read(filename) looks the name up: of several members with one
\* name it reads the last
ReadMember(members, filename) ==
    LET last == CHOOSE i \in 1..Len(members) :
                    /\ members[i].filename = filename
                    /\ \A j \in (i + 1)..Len(members) : members[j].filename # filename
    IN  members[last]

\* the loop over zip_file.filelist: one payload per member that is no
\* directory, has a subtitle extension and can be read
RECURSIVE CollectSubtitleFiles(_, _)
CollectSubtitleFiles(members, i) ==
    IF i > Len(members) THEN <<>>
    ELSE LET member == members[i]
             data == ReadMember(members, member.filename)
             rest == CollectSubtitleFiles(members, i + 1)
         IN  IF IsDir(member) \/ ~HasSubtitleExtension(member.filename) \/ ~data.readable
             THEN rest
             ELSE <<[filename |-> sanitize_filename(member.filename),
                     size |-> data.size,
                     member |-> i]>> \o rest

\* max(files, key=lambda x: x['size']): the first of the largest
MaxBySize(files) ==
    LET first == CHOOSE i \in 1..Len(files) :
                     /\ \A j \in 1..Len(files) : files[j].size <= files[i].size
                     /\ \A j \in 1..(i - 1) : files[j].size < files[i].size
    IN  files[first]

\* faulty variant: no preference for .srt files, the largest file wins
select_best_subtitle_largest(files, preferred) ==
    LET preferred_name == Lower(preferred)
        matches(s) == IsSubstring(preferred_name, Lower(s.filename))
        named == SelectSeq(files, matches)
    IN  IF Len(files) = 1 THEN files[1]
        ELSE IF preferred # <<>> /\ named # <<>> THEN named[1]
        ELSE MaxBySize(files)

\* DownloadParser._select_best_subtitle, on a list that is not empty
select_best_subtitle(files, preferred) ==
    LET preferred_name == Lower(preferred)
        matches(s) == IsSubstring(preferred_name, Lower(s.filename))
        named == SelectSeq(files, matches)
        IsSrt(s) == EndsWith(Lower(s.filename), <<".", "s", "r", "t">>)
        srt_files == SelectSeq(files, IsSrt)
    IN  IF Len(files) = 1 THEN files[1]
        ELSE IF preferred # <<>> /\ named # <<>> THEN named[1]
        ELSE IF srt_files # <<>> THEN MaxBySize(srt_files)
        ELSE MaxBySize(files)

\* faulty variant: the list of collected payloads is returned instead of the best one
extract_subtitle_from_zip_all(members, valid, preferred) ==
    LET files == CollectSubtitleFiles(members, 1)
    IN  IF ~valid
        THEN [raised |-> TRUE, files |-> <<>>, selected |-> <<>>]
        ELSE IF files = <<>>
        THEN [raised |-> TRUE, files |-> files, selected |-> <<>>]
        ELSE [raised |-> FALSE, files |-> files, selected |-> files]

\* the whole call: [raised, files, selected]
extract_subtitle_from_zip(members, valid, preferred) ==
    LET files == CollectSubtitleFiles(members, 1)
    IN  IF ~valid
        THEN [raised |-> TRUE, files |-> <<>>, selected |-> <<>>]
        ELSE IF files = <<>>
        THEN [raised |-> TRUE, files |-> files, selected |-> <<>>]
        ELSE [raised |-> FALSE, files |-> files,
              selected |-> <<select_best_subtitle(files, preferred)>>]

----------------------------------------------------------------------------
(* Inputs of the archive extraction *)

MemberNames == { <<"a", ".", "s", "r", "t">>,
                 <<"B", ".", "S", "R", "T">>,
                 <<"b", ".", "a", "s", "s">>,
                 <<"d", "/", "e", ".", "s", "u", "b">> }

MemberSizes == {100, 500, 900}

ZipMembers ==
    { [filename |-> n, size |-> s, readable |-> TRUE] : n \in MemberNames, s \in MemberSizes }
    \cup { [filename |-> <<"c", ".", "n", "f", "o">>, size |-> 900, readable |-> TRUE],
           [filename |-> <<"d", "/">>, size |-> 0, readable |-> TRUE],
           [filename |-> <<"a", ".", "s", "r", "t">>, size |-> 900, readable |-> FALSE] }

PreferredNames == { <<>>, <<"B">>, <<"E", ".", "s", "u", "b">>, <<"z">> }

----------------------------------------------------------------------------
(* Archive extraction actions *)

ZipIdle ==
    /\ zip_members = <<>>
    /\ zip_valid = TRUE
    /\ preferred_filename = <<>>
    /\ subtitle_files = <<>>
    /\ selected = <<>>
    /\ extraction = "idle"

\* the downloaded archive holds one more member
AddZipMember ==
    /\ extraction = "idle"
    /\ Len(zip_members) < MaxMembers
    /\ \E m \in ZipMembers : zip_members' = Append(zip_members, m)
    /\ UNCHANGED <<zip_valid, preferred_filename, subtitle_files, selected, extraction>>
    /\ UNCHANGED <<rankVars, langVars, restVars>>

\* one call of extract_subtitle_from_zip; bytes that are no archive have no members
ExtractSubtitleFromZip ==
    /\ extraction = "idle"
    /\ \E preferred \in PreferredNames, valid \in BOOLEAN :
         /\ valid \/ zip_members = <<>>
         /\ LET r == extract_subtitle_from_zip(zip_members, valid, preferred)
            IN  /\ subtitle_files' = r.files
                /\ selected' = r.selected
                /\ extraction' = IF r.raised THEN "DownloadError" ELSE "returned"
         /\ zip_valid' = valid
         /\ preferred_filename' = preferred
    /\ UNCHANGED zip_members
    /\ UNCHANGED <<rankVars, langVars, restVars>>

----------------------------------------------------------------------------
(* Subtitle decoding (download_parser.py).  Bytes are numbers 0..255 and   *)
(* decoded text is a sequence of code points.                              *)

LF == 10
CR == 13
BOM == 65279
ReplacementChar == 65533

\* the characters str.strip() removes
UnicodeSpace ==
    (9..13) \cup (28..32) \cup {133, 160, 5760} \cup (8192..8202)
    \cup {8232, 8233, 8239, 8287, 12288}

IsCont(b) == b >= 128 /\ b <= 191

\* the second byte a lead byte of a 3- or 4-byte sequence accepts
SecondOk(lead, b) ==
    IF lead = 224 THEN b >= 160 /\ b <= 191
    ELSE IF lead = 237 THEN b >= 128 /\ b <= 159
    ELSE IF lead = 240 THEN b >= 144 /\ b <= 191
    ELSE IF lead = 244 THEN b >= 128 /\ b <= 143
    ELSE IsCont(b)

\* the length the lead byte announces, 0 for a byte that cannot lead
SeqLen(lead) ==
    IF lead < 128 THEN 1
    ELSE IF lead >= 194 /\ lead <= 223 THEN 2
    ELSE IF lead >= 224 /\ lead <= 239 THEN 3
    ELSE IF lead >= 240 /\ lead <= 244 THEN 4
    ELSE 0

\* the number of leading bytes of bs that are a valid prefix of one
\* UTF-8 sequence (at most the announced length)
RECURSIVE ValidPrefix(_, _, _)
ValidPrefix(bs, n, k) ==
    IF k >= n \/ k >= Len(bs) THEN k
    ELSE IF (k = 1 /\ SecondOk(bs[1], bs[2])) \/ (k > 1 /\ IsCont(bs[k + 1]))
         THEN ValidPrefix(bs, n, k + 1)
         ELSE k

\* the code point of the well-formed sequence bs[1..n]
CodePoint(bs, n) ==
    IF n = 1 THEN bs[1]
    ELSE IF n = 2 THEN (bs[1] - 192) * 64 + (bs[2] - 128)
    ELSE IF n = 3 THEN (bs[1] - 224) * 4096 + (bs[2] - 128) * 64 + (bs[3] - 128)
    ELSE (bs[1] - 240) * 262144 + (bs[2] - 128) * 4096
         + (bs[3] - 128) * 64 + (bs[4] - 128)

\* bytes.decode('utf-8'): ok = FALSE stands for UnicodeDecodeError
RECURSIVE Utf8Decode(_)
Utf8Decode(bs) ==
    IF bs = <<>> THEN [ok |-> TRUE, text |-> <<>>]
    ELSE LET n == SeqLen(bs[1])
         IN  IF n = 0 \/ ValidPrefix(bs, n, 1) < n
             THEN [ok |-> FALSE, text |-> <<>>]
             ELSE LET rest == Utf8Decode(SubSeq(bs, n + 1, Len(bs)))
                  IN  [ok |-> rest.ok,
                       text |-> IF rest.ok THEN <<CodePoint(bs, n)>> \o rest.text
                                ELSE <<>>]

\* bytes.decode('utf-8', errors='replace'): each maximal ill-formed part
\* becomes one replacement character
RECURSIVE Utf8Replace(_)
Utf8Replace(bs) ==
    IF bs = <<>> THEN <<>>
    ELSE LET n == SeqLen(bs[1])
             k == IF n = 0 THEN 1 ELSE ValidPrefix(bs, n, 1)
         IN  IF n > 0 /\ k = n
             THEN <<CodePoint(bs, n)>> \o Utf8Replace(SubSeq(bs, n + 1, Len(bs)))
             ELSE <<ReplacementChar>> \o Utf8Replace(SubSeq(bs, k + 1, Len(bs)))

\* bytes.decode('utf-8-sig'): a leading signature EF BB BF is dropped
Utf8SigDecode(bs) ==
    IF Len(bs) >= 3 /\ SubSeq(bs, 1, 3) = <<239, 187, 191>>
    THEN Utf8Decode(SubSeq(bs, 4, Len(bs)))
    ELSE Utf8Decode(bs)

\* cp1252: the code points of the bytes 128..159, -1 where the byte is undefined
Cp1252High ==
    << 8364, -1, 8218, 402, 8222, 8230, 8224, 8225,
       710, 8240, 352, 8249, 338, -1, 381, -1,
       -1, 8216, 8217, 8220, 8221, 8226, 8211, 8212,
       732, 8482, 353, 8250, 339, -1, 382, 376 >>

Cp1252Char(b) == IF b >= 128 /\ b <= 159 THEN Cp1252High[b - 127] ELSE b

Cp1252Decode(bs) ==
    IF \E i \in 1..Len(bs) : Cp1252Char(bs[i]) = -1
    THEN [ok |-> FALSE, text |-> <<>>]
    ELSE [ok |-> TRUE, text |-> [i \in 1..Len(bs) |-> Cp1252Char(bs[i])]]

\* content.decode(encoding)
Decode(encoding, bs) ==
    IF encoding = "utf-8" THEN Utf8Decode(bs)
    ELSE IF encoding = "utf-8-sig" THEN Utf8SigDecode(bs)
    ELSE IF encoding \in {"latin1", "iso-8859-1"} THEN [ok |-> TRUE, text |-> bs]
    ELSE Cp1252Decode(bs)

\* faulty variant: the single-byte encoding is tried first
EncodingsLatinFirst ==
    <<"latin1", "utf-8", "utf-8-sig", "cp1252", "iso-8859-1", "windows-1252">>

\* _decode_subtitle_content: encodings
Encodings ==
    <<"utf-8", "utf-8-sig", "latin1", "cp1252", "iso-8859-1", "windows-1252">>

\* content.replace('\r\n', '\n')
RECURSIVE ReplaceCRLF(_)
ReplaceCRLF(s) ==
    IF s = <<>> THEN <<>>
    ELSE IF Len(s) >= 2 /\ s[1] = CR /\ s[2] = LF
         THEN <<LF>> \o ReplaceCRLF(SubSeq(s, 3, Len(s)))
         ELSE <<s[1]>> \o ReplaceCRLF(Tail(s))

\* .replace('\r', '\n')
ReplaceCR(s) == [i \in 1..Len(s) |-> IF s[i] = CR THEN LF ELSE s[i]]

\* if content.startswith('\ufeff'): content = content[1:]
DropBOM(s) == IF s # <<>> /\ s[1] = BOM THEN Tail(s) ELSE s

\* faulty variant: every blank line after the first line is kept
RECURSIVE NormalizeLinesKeepBlank(_, _, _)
NormalizeLinesKeepBlank(lines, i, normalized_lines) ==
    IF i > Len(lines) THEN normalized_lines
    ELSE LET line == StripChars(lines[i], UnicodeSpace)
         IN  IF line # <<>> \/ i > 1
             THEN NormalizeLinesKeepBlank(lines, i + 1, Append(normalized_lines, line))
             ELSE NormalizeLinesKeepBlank(lines, i + 1, normalized_lines)

\* the loop over lines: each line is stripped; a blank line is kept only
\* after a non-blank line that precedes it (i counts from 1)
RECURSIVE NormalizeLines(_, _, _)
NormalizeLines(lines, i, normalized_lines) ==
    IF i > Len(lines) THEN normalized_lines
    ELSE LET line == StripChars(lines[i], UnicodeSpace)
         IN  IF line # <<>>
             THEN NormalizeLines(lines, i + 1, Append(normalized_lines, line))
             ELSE IF i > 1 /\ normalized_lines # <<>>
                     /\ normalized_lines[Len(normalized_lines)] # <<>>
                  THEN NormalizeLines(lines, i + 1, Append(normalized_lines, <<>>))
                  ELSE NormalizeLines(lines, i + 1, normalized_lines)

\* '\n'.join(lines)
RECURSIVE Join(_)
Join(lines) ==
    IF lines = <<>> THEN <<>>
    ELSE IF Len(lines) = 1 THEN lines[1]
    ELSE lines[1] \o <<LF>> \o Join(Tail(lines))

\* _normalize_subtitle_content; none of its steps raises on a str
normalize_subtitle_content(text) ==
    LET unix == DropBOM(ReplaceCR(ReplaceCRLF(text)))
        result == Join(NormalizeLines(Split(unix, LF), 1, <<>>))
    IN  IF result # <<>> /\ result[Len(result)] # LF
        THEN Append(result, LF)
        ELSE result

\* the loop over encodings: the first that decodes wins
RECURSIVE TryEncodings(_, _, _)
TryEncodings(bs, encodings, i) ==
    IF i > Len(encodings)
    THEN [encoding |-> "replace", text |-> normalize_subtitle_content(Utf8Replace(bs))]
    ELSE LET d == Decode(encodings[i], bs)
         IN  IF d.ok
             THEN [encoding |-> encodings[i], text |-> normalize_subtitle_content(d.text)]
             ELSE TryEncodings(bs, encodings, i + 1)

\* _decode_subtitle_content
decode_subtitle_content(bs) == TryEncodings(bs, Encodings, 1)

----------------------------------------------------------------------------
(* Decoding inputs and actions *)

\* 'A', space, LF, CR; C3 A0 is a two-byte sequence, EF BB BF the
\* signature; A0 alone is no UTF-8 and is a no-break space in Latin-1
Bytes == {65, 32, 10, 13, 195, 160, 239, 187, 191}

DecodeIdle ==
    /\ content = <<>>
    /\ decode_state = "idle"
    /\ decode_encoding = "none"
    /\ decoded = <<>>

\* the file read from the archive holds one more byte
ReadByte ==
    /\ decode_state = "idle"
    /\ Len(content) < MaxBytes
    /\ \E b \in Bytes : content' = Append(content, b)
    /\ UNCHANGED <<decode_state, decode_encoding, decoded>>
    /\ UNCHANGED <<coreVars, cacheVars, gateVars, titleVars, moreVars>>

\* one call of _decode_subtitle_content(content)
DecodeSubtitleContent ==
    /\ decode_state = "idle"
    /\ LET r == decode_subtitle_content(content)
       IN  /\ decode_encoding' = r.encoding
           /\ decoded' = r.text
    /\ decode_state' = "returned"
    /\ UNCHANGED content
    /\ UNCHANGED <<coreVars, cacheVars, gateVars, titleVars, moreVars>>

----------------------------------------------------------------------------
(* IMDB title cache (imdb_lookup.py).  A lookup_title call is a sequence   *)
(* of steps of its caller: validation and cache check, the external        *)
(* request, the reading of the clock, the store.  Between the steps of     *)
(* one caller the clock and the other callers may move.                    *)

cache_ttl == 3600

\* the empty dict
EmptyCache == [k \in {} |-> 0]

\* str.startswith
StartsWith(s, prefix) ==
    Len(s) >= Len(prefix) /\ SubSeq(s, 1, Len(prefix)) = prefix

\* not (not imdb_id or not imdb_id.startswith('tt'))
PassesIdCheck(id) == id # <<>> /\ StartsWith(id, <<"t", "t">>)

\* faulty variant: an entry exactly cache_ttl old still counts as fresh
CacheHitInclusive(c, key, t) ==
    key \in DOMAIN c /\ t - c[key].timestamp <= cache_ttl

\* cache_key in self.cache and time.time() - cached_data['timestamp'] < self.cache_ttl
CacheHit(c, key, t) ==
    key \in DOMAIN c /\ t - c[key].timestamp < cache_ttl

\* faulty variant: whatever was extracted is cached
CacheableAlways(title) == TRUE

\* if title:
Cacheable(title) == title # <<>>

\* faulty variant: the title of an existing entry is replaced, its timestamp is kept
StoreEntryTorn(c, key, title, timestamp) ==
    [k \in DOMAIN c \cup {key} |->
        IF k = key
        THEN [title |-> title,
              timestamp |-> IF key \in DOMAIN c THEN c[key].timestamp ELSE timestamp]
        ELSE c[k]]

\* self.cache[cache_key] = {'title': title, 'timestamp': ...}
StoreEntry(c, key, title, timestamp) ==
    [k \in DOMAIN c \cup {key} |->
        IF k = key THEN [title |-> title, timestamp |-> timestamp] ELSE c[k]]

----------------------------------------------------------------------------
(* Title cache inputs and actions *)

\* two identifiers, a text that begins with tt and goes on with a letter,
\* and the empty text
Ids == { tt1, tt2, <<"t", "t", "a">>, <<>> }

\* what the external request and the extraction give: the request raises,
\* no title is extracted, or one of two titles
PageTitles == { <<"T", "1">>, <<"T", "2">> }
Raises == [raised |-> TRUE, title |-> <<>>]
NoTitle == [raised |-> FALSE, title |-> <<>>]
Responses == {Raises, NoTitle} \cup {[raised |-> FALSE, title |-> t] : t \in PageTitles}

\* a caller outside lookup_title that has made no call yet
NoCall ==
    [pc |-> "idle", id |-> <<>>, started |-> FALSE, cache0 |-> EmptyCache,
     t0 |-> 0, after_failure |-> FALSE, issued |-> 0, response |-> NoTitle,
     title |-> <<>>, timestamp |-> 0, result |-> <<>>]

CacheIdle ==
    /\ cache = EmptyCache
    /\ now = 0
    /\ callers = {}
    /\ call = EmptyCache
    /\ ncalls = 0
    /\ requests = [id \in Ids |-> 0]
    /\ calls_at = [id \in Ids |-> <<>>]
    /\ writes = {}
    /\ failed = {}

\* the service with the given caller threads, nothing cached
InitCache(threads) ==
    /\ cache = EmptyCache
    /\ now = 0
    /\ callers = threads
    /\ call = [c \in threads |-> NoCall]
    /\ ncalls = 0
    /\ requests = [id \in Ids |-> 0]
    /\ calls_at = [id \in Ids |-> <<>>]
    /\ writes = {}
    /\ failed = {}

\* the calls explored: of one caller, or of callers that race
CallBudget == IF Cardinality(callers) = 1 THEN MaxCalls ELSE MaxRaceCalls

\* time passes
Tick ==
    /\ callers # {}
    /\ now < MaxTicks * TimeStep
    /\ now' = now + TimeStep
    /\ UNCHANGED <<cache, callers, call, ncalls, requests, calls_at, writes, failed>>
    /\ UNCHANGED <<coreVars, decVars, gateVars, titleVars, moreVars>>

\* lookup_title(imdb_id), up to the cache check: a malformed identifier and
\* a fresh entry return at once, otherwise the external request is next
LookupTitleBy(c) ==
    /\ call[c].pc = "idle"
    /\ ncalls < CallBudget
    /\ \E id \in Ids :
         LET base == [NoCall EXCEPT !.id = id, !.started = TRUE, !.t0 = now,
                                    !.cache0 = cache]
         IN  IF ~PassesIdCheck(id)
             THEN /\ call' = [call EXCEPT ![c] = base]
                  /\ UNCHANGED calls_at
             ELSE /\ call' = [call EXCEPT ![c] =
                        IF CacheHit(cache, id, now)
                        THEN [base EXCEPT !.result = cache[id].title]
                        ELSE [base EXCEPT !.pc = "request",
                                          !.after_failure = id \in failed]]
                  /\ calls_at' = [calls_at EXCEPT ![id] = Append(@, now)]
    /\ ncalls' = ncalls + 1
    /\ UNCHANGED <<cache, now, callers, requests, writes, failed>>
    /\ UNCHANGED <<coreVars, decVars, gateVars, titleVars, moreVars>>

\* session_manager.get(imdb_url) and _extract_title_from_html: the request
\* raises (return None), or a page comes back and a title, or none, is
\* extracted from it (return None)
RespondBy(c) ==
    /\ call[c].pc = "request"
    /\ \E r \in Responses :
         /\ requests' = [requests EXCEPT ![call[c].id] = @ + 1]
         /\ IF ~r.raised /\ Cacheable(r.title)
            THEN /\ call' = [call EXCEPT ![c] =
                        [@ EXCEPT !.pc = "stamp", !.issued = 1, !.response = r,
                                  !.title = r.title]]
                 /\ UNCHANGED failed
            ELSE /\ call' = [call EXCEPT ![c] =
                        [@ EXCEPT !.pc = "idle", !.issued = 1, !.response = r,
                                  !.result = <<>>]]
                 /\ failed' = failed \cup {call[c].id}
    /\ UNCHANGED <<cache, now, callers, ncalls, calls_at, writes>>
    /\ UNCHANGED <<coreVars, decVars, gateVars, titleVars, moreVars>>

\* 'timestamp': time.time(), evaluated before the entry is stored
StampBy(c) ==
    /\ call[c].pc = "stamp"
    /\ call' = [call EXCEPT ![c] = [@ EXCEPT !.pc = "store", !.timestamp = now]]
    /\ UNCHANGED <<cache, now, callers, ncalls, requests, calls_at, writes, failed>>
    /\ UNCHANGED <<coreVars, decVars, gateVars, titleVars, moreVars>>

\* self.cache[cache_key] = {...}; return title
StoreBy(c) ==
    /\ call[c].pc = "store"
    /\ cache' = StoreEntry(cache, call[c].id, call[c].title, call[c].timestamp)
    /\ writes' = writes \cup {<<call[c].id, call[c].title, call[c].timestamp>>}
    /\ failed' = failed \ {call[c].id}
    /\ call' = [call EXCEPT ![c] = [@ EXCEPT !.pc = "idle", !.result = call[c].title]]
    /\ UNCHANGED <<now, callers, ncalls, requests, calls_at>>
    /\ UNCHANGED <<coreVars, decVars, gateVars, titleVars, moreVars>>

LookupTitle == \E c \in callers : LookupTitleBy(c)

Respond == \E c \in callers : RespondBy(c)

Stamp == \E c \in callers : StampBy(c)

Store == \E c \in callers : StoreBy(c)

----------------------------------------------------------------------------
(* Admission gate of the API (routes.py).  Every route body runs inside    *)
(* `with request_limit(scope)`; the gate is a bounded semaphore.           *)

RETRY_AFTER_SECONDS == 15

\* the routes: the JSON routes turn scraper errors into HTTP errors, the
\* Bazarr routes answer HTTP 200 with a status in the body
Routes == {"search_movies", "bazarr_search", "bazarr_download"}

IsBazarr(scope) == scope \in {"bazarr_search", "bazarr_download"}

\* how the body of a route ends: it returns, the scraper raises its own
\* error, anything else is raised, or bazarr_download finds no subtitle_id
Outcomes(scope) ==
    IF scope = "search_movies" THEN {"return", "scraper_error", "exception"}
    ELSE IF scope = "bazarr_search" THEN {"return", "exception"}
    ELSE {"return", "exception", "bad_request"}

NoResponse == [http |-> 0, retry_after |-> 0, body |-> "none"]

\* raise HTTPException(status_code=429, ..., headers={"Retry-After": ...});
\* every route re-raises an HTTPException
Refusal(scope) == [http |-> 429, retry_after |-> RETRY_AFTER_SECONDS, body |-> "none"]

\* the response of an admitted request
Response(scope, outcome) ==
    IF IsBazarr(scope)
    THEN [http |-> 200, retry_after |-> 0,
          body |-> IF outcome = "return" THEN "200 OK"
                   ELSE IF outcome = "bad_request" THEN "400 Bad Request"
                   ELSE "500 Internal Server Error"]
    ELSE [http |-> IF outcome = "return" THEN 200
                   ELSE IF outcome = "scraper_error" THEN 400 ELSE 500,
          retry_after |-> 0, body |-> "none"]

\* faulty variant: a permit is handed out although none is left
CanAcquireAlways(p) == p >= 0

\* _request_semaphore.acquire succeeds when a permit is left
CanAcquire(p) == p > 0

\* faulty variant: the permit is given back on a normal return only
ReleasesOnReturn(outcome) == outcome = "return"

\* try: yield / finally: _request_semaphore.release()
Releases(outcome) == TRUE

\* acquire(timeout=REQUEST_QUEUE_TIMEOUT) gives up once the timeout has passed
DeadlineReached(waited, timeout) == waited >= timeout

\* scraper work runs in the body of the route, except on the early return
\* of bazarr_download
DoesWork(outcome) == outcome # "bad_request"

----------------------------------------------------------------------------
(* Admission gate actions *)

Requests == 1..MaxRequests

NewRequest ==
    [pc |-> "new", route |-> "none", waited |-> 0, full |-> FALSE,
     worked |-> FALSE, took |-> 0, gave |-> 0, response |-> NoResponse]

GateIdle ==
    /\ MAX_INFLIGHT_REQUESTS = 1
    /\ REQUEST_QUEUE_TIMEOUT = 0
    /\ permits = 1
    /\ req = <<>>

\* the module is loaded: the configuration is read, the semaphore is full
InitGate ==
    /\ MAX_INFLIGHT_REQUESTS \in 1..MaxInflight
    /\ REQUEST_QUEUE_TIMEOUT \in {0, MaxQueueTimeout}
    /\ permits = MAX_INFLIGHT_REQUESTS
    /\ req = [r \in Requests |-> NewRequest]

\* a request reaches `with request_limit(scope)`: it takes a permit, or is
\* refused at once (no queue timeout), or starts to wait; requests are
\* numbered in the order in which they arrive
Arrive ==
    \E r \in DOMAIN req, scope \in Routes :
        /\ req[r].pc = "new"
        /\ \A q \in DOMAIN req : q < r => req[q].pc # "new"
        /\ LET inside == Cardinality({q \in DOMAIN req : req[q].pc = "inside"})
               arrived == [req[r] EXCEPT !.route = scope,
                                         !.full = (inside >= MAX_INFLIGHT_REQUESTS)]
           IN  IF CanAcquire(permits)
               THEN /\ permits' = permits - 1
                    /\ req' = [req EXCEPT ![r] = [arrived EXCEPT !.pc = "inside", !.took = 1]]
               ELSE /\ UNCHANGED permits
                    /\ req' = [req EXCEPT ![r] =
                          IF REQUEST_QUEUE_TIMEOUT > 0
                          THEN [arrived EXCEPT !.pc = "waiting"]
                          ELSE [arrived EXCEPT !.pc = "done",
                                               !.response = Refusal(scope)]]
        /\ UNCHANGED <<MAX_INFLIGHT_REQUESTS, REQUEST_QUEUE_TIMEOUT>>
        /\ UNCHANGED <<coreVars, decVars, cacheVars, titleVars, moreVars>>

\* a waiting request gets a permit that was released
AdmitWaiting ==
    \E r \in DOMAIN req :
        /\ req[r].pc = "waiting"
        /\ CanAcquire(permits)
        /\ permits' = permits - 1
        /\ req' = [req EXCEPT ![r] = [@ EXCEPT !.pc = "inside", !.took = 1]]
        /\ UNCHANGED <<MAX_INFLIGHT_REQUESTS, REQUEST_QUEUE_TIMEOUT>>
        /\ UNCHANGED <<coreVars, decVars, cacheVars, titleVars, moreVars>>

\* the waiting clock advances; it cannot pass the deadline of a request
\* that is still waiting
Wait ==
    /\ \E r \in DOMAIN req : req[r].pc = "waiting"
    /\ \A r \in DOMAIN req :
         req[r].pc = "waiting" =>
            (~DeadlineReached(req[r].waited, REQUEST_QUEUE_TIMEOUT)
             /\ req[r].waited < MaxQueueTimeout + 1)
    /\ req' = [r \in DOMAIN req |->
                 IF req[r].pc = "waiting"
                 THEN [req[r] EXCEPT !.waited = @ + 1]
                 ELSE req[r]]
    /\ UNCHANGED <<MAX_INFLIGHT_REQUESTS, REQUEST_QUEUE_TIMEOUT, permits>>
    /\ UNCHANGED <<coreVars, decVars, cacheVars, titleVars, moreVars>>

\* acquire(timeout=...) returns False: the request is refused
GiveUp ==
    \E r \in DOMAIN req :
        /\ req[r].pc = "waiting"
        /\ DeadlineReached(req[r].waited, REQUEST_QUEUE_TIMEOUT)
        /\ req' = [req EXCEPT ![r] =
                     [@ EXCEPT !.pc = "done", !.response = Refusal(req[r].route)]]
        /\ UNCHANGED <<MAX_INFLIGHT_REQUESTS, REQUEST_QUEUE_TIMEOUT, permits>>
        /\ UNCHANGED <<coreVars, decVars, cacheVars, titleVars, moreVars>>

\* the body of the route runs to one of its ends and the with block is left
Finish ==
    \E r \in DOMAIN req :
        /\ req[r].pc = "inside"
        /\ \E outcome \in Outcomes(req[r].route) :
             /\ permits' = IF Releases(outcome) THEN permits + 1 ELSE permits
             /\ req' = [req EXCEPT ![r] =
                          [@ EXCEPT !.pc = "done",
                                    !.worked = DoesWork(outcome),
                                    !.gave = IF Releases(outcome) THEN 1 ELSE 0,
                                    !.response = Response(req[r].route, outcome)]]
        /\ UNCHANGED <<MAX_INFLIGHT_REQUESTS, REQUEST_QUEUE_TIMEOUT>>
        /\ UNCHANGED <<coreVars, decVars, cacheVars, titleVars, moreVars>>

----------------------------------------------------------------------------
(* Title extraction from the IMDB page (imdb_lookup.py).  The page is the  *)
(* four elements the strategies look for, each absent or with its text.    *)

\* \(\d{4}\) at position i
YearAt(s, i) ==
    /\ i + 5 <= Len(s)
    /\ s[i] = "(" /\ s[i + 5] = ")"
    /\ \A k \in (i + 1)..(i + 4) : s[k] \in DigitChars

\* \s*\(\d{4}\) matches at position i
RECURSIVE YearSuffixAt(_, _)
YearSuffixAt(s, i) ==
    IF i > Len(s) THEN FALSE
    ELSE YearAt(s, i) \/ (IsSpaceChar(s[i]) /\ YearSuffixAt(s, i + 1))

\* -\s*IMDb at position i
RECURSIVE ImdbAt(_, _)
ImdbAt(s, i) ==
    IF i > Len(s) THEN FALSE
    ELSE IF IsSpaceChar(s[i]) THEN ImdbAt(s, i + 1)
    ELSE i + 3 <= Len(s) /\ SubSeq(s, i, i + 3) = <<"I", "M", "D", "b">>

\* \s*-\s*IMDb matches at position i
RECURSIVE ImdbSuffixAt(_, _)
ImdbSuffixAt(s, i) ==
    IF i > Len(s) THEN FALSE
    ELSE (s[i] = "-" /\ ImdbAt(s, i + 1))
         \/ (IsSpaceChar(s[i]) /\ ImdbSuffixAt(s, i + 1))

\* re.sub(r'\s*\(\d{4}\).*$', '', title): the text before the leftmost match
CutYear(s) ==
    LET at == {i \in 1..Len(s) : YearSuffixAt(s, i)}
    IN  IF at = {} THEN s
        ELSE SubSeq(s, 1, (CHOOSE i \in at : \A j \in at : i <= j) - 1)

\* re.sub(r'\s*-\s*IMDb.*$', '', title)
CutImdb(s) ==
    LET at == {i \in 1..Len(s) : ImdbSuffixAt(s, i)}
    IN  IF at = {} THEN s
        ELSE SubSeq(s, 1, (CHOOSE i \in at : \A j \in at : i <= j) - 1)

\* re.search(r'^([^(]+)', title_text).group(1): the text before the first '('
RECURSIVE BeforeParen(_)
BeforeParen(s) ==
    IF s = <<>> \/ Head(s) = "(" THEN <<>>
    ELSE <<Head(s)>> \o BeforeParen(Tail(s))

None == [is_none |-> TRUE, title |-> <<>>]

Title(t) == [is_none |-> FALSE, title |-> t]

\* title_element.get_text(strip=True), year and what follows removed
CleanHeading(text) == Strip(CutYear(Strip(text)))

\* the og:title content: year removed, then the ' - IMDb' suffix
CleanMeta(text) == Strip(CutImdb(Strip(CutYear(text))))

\* the page title: the text before the first '(', then the ' - IMDb' suffix
CleanPageTitle(text) == Strip(CutImdb(Strip(BeforeParen(Strip(text)))))

\* _extract_title_from_html: the first element found decides
extract_title_from_html(p) ==
    IF p.h1.present THEN Title(CleanHeading(p.h1.text))
    ELSE IF p.span.present THEN Title(CleanHeading(p.span.text))
    ELSE IF p.meta.present /\ p.meta.text # <<>> THEN Title(CleanMeta(p.meta.text))
    ELSE IF p.title.present /\ BeforeParen(Strip(p.title.text)) # <<>>
         THEN Title(CleanPageTitle(p.title.text))
    ELSE None

----------------------------------------------------------------------------
(* Title extraction inputs and actions *)

Absent == [present |-> FALSE, text |-> <<>>]

Element(t) == [present |-> TRUE, text |-> t]

\* "", "A", "A (2009)", "(2009)"
HeadingTexts ==
    { <<>>, <<"A">>,
      <<"A", " ", "(", "2", "0", "0", "9", ")">>,
      <<"(", "2", "0", "0", "9", ")">> }

\* "", "C (2009) - IMDb", "- IMDb"
MetaTexts ==
    { <<>>,
      <<"C", " ", "(", "2", "0", "0", "9", ")", " ", "-", " ", "I", "M", "D", "b">>,
      <<"-", " ", "I", "M", "D", "b">> }

\* "D (TV 2023) - IMDb", "D - IMDb", "(x)", ""
PageTitleTexts ==
    { <<"D", " ", "(", "T", "V", " ", "2", "0", "2", "3", ")", " ", "-", " ",
        "I", "M", "D", "b">>,
      <<"D", " ", "-", " ", "I", "M", "D", "b">>,
      <<"(", "x", ")">>,
      <<>> }

Pages ==
    [h1 : {Absent} \cup {Element(t) : t \in HeadingTexts},
     span : {Absent, Element(<<"B">>), Element(<<>>)},
     meta : {Absent} \cup {Element(t) : t \in MetaTexts},
     title : {Absent} \cup {Element(t) : t \in PageTitleTexts}]

NoPage == [h1 |-> Absent, span |-> Absent, meta |-> Absent, title |-> Absent]

ExtractIdle ==
    /\ page = NoPage
    /\ extract_state = "idle"
    /\ extracted = None

\* BeautifulSoup(html_content, 'html.parser'): the page that came back
ParsePage ==
    /\ extract_state = "idle"
    /\ \E p \in Pages : page' = p
    /\ extract_state' = "parsed"
    /\ UNCHANGED extracted
    /\ UNCHANGED <<coreVars, decVars, cacheVars, gateVars, moreVars>>

\* one call of _extract_title_from_html
ExtractTitleFromHtml ==
    /\ extract_state = "parsed"
    /\ extracted' = extract_title_from_html(page)
    /\ extract_state' = "returned"
    /\ UNCHANGED page
    /\ UNCHANGED <<coreVars, decVars, cacheVars, gateVars, moreVars>>

----------------------------------------------------------------------------
(* Subtitle record construction: SubtitleInfo.__init__ (subtitle_parser.py) *)
(* and helpers.extract_subtitle_info.                                      *)

\* the maximal runs of \w characters of s, in order: a pattern \b(...)\b
\* can only match a whole run
RECURSIVE WordRuns(_, _)
WordRuns(s, cur) ==
    IF s = <<>> THEN (IF cur = <<>> THEN <<>> ELSE <<cur>>)
    ELSE IF IsWordChar(Head(s))
         THEN WordRuns(Tail(s), Append(cur, Head(s)))
         ELSE (IF cur = <<>> THEN <<>> ELSE <<cur>>) \o WordRuns(Tail(s), <<>>)

\* lang_patterns, the patterns that can match a text over FilenameChars:
\* r'\b(eng|en|english)\b' and r'\b(spa|es|spanish|espanol|castellano)\b';
\* the other named patterns have the same shape
lang_patterns ==
    << { <<"e", "n", "g">>, <<"e", "n">>, <<"e", "n", "g", "l", "i", "s", "h">> },
       { <<"s", "p", "a">>, <<"e", "s">>, <<"s", "p", "a", "n", "i", "s", "h">>,
         <<"e", "s", "p", "a", "n", "o", "l">>,
         <<"c", "a", "s", "t", "e", "l", "l", "a", "n", "o">> } >>

\* the last pattern, r'\b([a-z]{2,3})\b'
IsGenericCode(w) == Len(w) \in 2..3 /\ \A i \in 1..Len(w) : w[i] \in LowerChars

\* re.search: the leftmost run that matches, <<>> for no match
FirstRun(runs, Matches(_)) ==
    LET at == {i \in 1..Len(runs) : Matches(runs[i])}
    IN  IF at = {} THEN <<>> ELSE runs[CHOOSE i \in at : \A j \in at : i <= j]

\* extract_subtitle_info(filename)['language']: the first pattern, in list
\* order, that matches; None (<<>>) when none does
ExtractLanguage(name) ==
    LET runs == WordRuns(Lower(name), <<>>)
        Named(k) == FirstRun(runs, LAMBDA w : w \in lang_patterns[k])
        hits == {k \in 1..Len(lang_patterns) : Named(k) # <<>>}
    IN  IF hits # {} THEN Named(CHOOSE k \in hits : \A j \in hits : k <= j)
        ELSE FirstRun(runs, IsGenericCode)

\* SubtitleInfo.__init__: self.language after construction
SubtitleInfoInit(lang, name) ==
    LET file_info == ExtractLanguage(name)
    IN  [constructed |-> TRUE,
         language |-> IF lang = <<>> /\ file_info # <<>> THEN file_info ELSE lang]

----------------------------------------------------------------------------
(* Construction inputs and actions *)

FilenameChars == {"e", "n", "s", "E", "1", ".", "_"}

\* language arguments: '' or None (both <<>>), a code, a name
LanguageArgs == { <<>>, <<"h", "u">>, <<"u", "n", "k", "n", "o", "w", "n">> }

NoInfo == [constructed |-> FALSE, language |-> <<>>]

InfoIdle ==
    /\ info_filename = <<>>
    /\ info_language = <<>>
    /\ info = NoInfo

\* the caller builds the filename argument, one character at a time
TypeFilename ==
    /\ ~info.constructed
    /\ Len(info_filename) < MaxFilename
    /\ \E c \in FilenameChars : info_filename' = Append(info_filename, c)
    /\ UNCHANGED <<info_language, info>>
    /\ UNCHANGED <<oldVars, normVars, searchVars, dlVars, smVars>>

\* SubtitleInfo(subtitle_id, language, filename, ...)
ConstructSubtitleInfo ==
    /\ ~info.constructed
    /\ \E l \in LanguageArgs :
         /\ info_language' = l
         /\ info' = SubtitleInfoInit(l, info_filename)
    /\ UNCHANGED info_filename
    /\ UNCHANGED <<oldVars, normVars, searchVars, dlVars, smVars>>

----------------------------------------------------------------------------
(* Title normalisation on its own: helpers.normalize_title applied to a    *)
(* text, and applied again to its own result.                              *)

TitleChars == {"A", "b", "1", "_", "-", " ", "\t"}

NormIdle ==
    /\ norm_input = <<>>
    /\ normalized = <<>>
    /\ renormalized = <<>>
    /\ norm_state = "idle"

\* the caller builds the title argument, one character at a time
TypeTitle ==
    /\ norm_state = "idle"
    /\ Len(norm_input) < MaxTitle
    /\ \E c \in TitleChars : norm_input' = Append(norm_input, c)
    /\ UNCHANGED <<normalized, renormalized, norm_state>>
    /\ UNCHANGED <<oldVars, infoVars, searchVars, dlVars, smVars>>

\* normalize_title(title)
NormalizeTitle ==
    /\ norm_state = "idle"
    /\ normalized' = normalize_title(norm_input)
    /\ norm_state' = "once"
    /\ UNCHANGED <<norm_input, renormalized>>
    /\ UNCHANGED <<oldVars, infoVars, searchVars, dlVars, smVars>>

\* normalize_title applied to the result of the first call
NormalizeAgain ==
    /\ norm_state = "once"
    /\ renormalized' = normalize_title(normalized)
    /\ norm_state' = "twice"
    /\ UNCHANGED <<norm_input, normalized>>
    /\ UNCHANGED <<oldVars, infoVars, searchVars, dlVars, smVars>>

----------------------------------------------------------------------------
(* The search flow: OpenSubtitlesScraper.search_movies and search_tv_shows *)
(* (scraper.py).  The two methods differ in the kind they pass on.         *)

\* faulty variant: only the empty string counts as blank
NeedsLookupEmptyOnly(q, id) == q = <<>> /\ id # <<>>

\* `if not query.strip() and imdb_id:`
NeedsLookup(q, id) == Strip(q) = <<>> /\ id # <<>>

\* faulty variant: the candidates are ranked against the local variable query
RankingQueryLocal(original_query, q) == q

\* the query handed to _filter_search_results is original_query
RankingQuery(original_query, q) == original_query

\* _search_by_imdb_id: the results of the page; when none is left and the
\* page links to a subtitle, one result made up from the identifier
ImdbIdResults(rs, links_subtitle, id, k) ==
    LET found == search_by_imdb_id(rs, id, k)
        made_up == [title |-> id, year |-> 0, imdb_id |-> id, url |-> <<"/", "i">>,
                    kind |-> IF k # <<>> THEN k ELSE movie, relevance_score |-> Unset]
    IN  IF found # <<>> THEN found
        ELSE IF links_subtitle THEN <<made_up>>
        ELSE <<>>

NoRanking == [results |-> <<>>, filtered |-> <<>>]

\* `if results: filtered_results = self._filter_search_results(...)`
Ranking(rs, args, q) ==
    IF rs = <<>> THEN NoRanking
    ELSE filter_search_results(rs, RankingQuery(args.query, q), args.year,
                               args.imdb_id, args.kind)

Step(op, text) == [op |-> op, text |-> text]

----------------------------------------------------------------------------
(* Search inputs and actions *)

\* "" and " " are blank
SearchQueries == { <<>>, <<" ">>, <<"A", "b">> }

\* titles of candidates; their normal forms are "ab c", "c d" and ""
CandidateTitles == { <<"a", "b", ":", " ", "c">>, <<"c", " ", "d">>, <<"-">> }

CandidateProfiles ==
    { [year |-> 2009, imdb_id |-> tt1,  url |-> <<"/", "1">>, kind |-> movie],
      [year |-> 2010, imdb_id |-> <<>>, url |-> <<"/", "2">>, kind |-> movie],
      [year |-> 0,    imdb_id |-> <<>>, url |-> <<>>,         kind |-> episode] }

Candidates == { SearchResult(t, p) : t \in CandidateTitles, p \in CandidateProfiles }

\* what a search page parses to; the empty list also stands for a request
\* that failed, which the three helpers turn into []
CandidateLists == UNION { [1..n -> Candidates] : n \in 0..MaxCandidates }

\* what lookup_title returns: None or a title
ResolvedTitles == { <<>>, <<"A", "b", " ", "c">> }

NoArgs == [query |-> <<>>, year |-> 0, imdb_id |-> <<>>, kind |-> <<>>]

SearchIdle ==
    /\ search_pc = "idle"
    /\ search_args = NoArgs
    /\ search_query = <<>>
    /\ search_log = <<>>
    /\ search_ranked = NoRanking

\* search_movies(query, year, imdb_id) or search_tv_shows(query, year, imdb_id)
StartSearch ==
    /\ search_pc = "idle"
    /\ \E q \in SearchQueries, y \in {0, 2009}, id \in ReqIds, k \in {movie, episode} :
         /\ search_args' = [query |-> q, year |-> y, imdb_id |-> id, kind |-> k]
         /\ search_query' = q
         /\ search_pc' = IF id # <<>> THEN "id_search" ELSE "resolve"
    /\ UNCHANGED <<search_log, search_ranked>>
    /\ UNCHANGED <<oldVars, infoVars, normVars, dlVars, smVars>>

\* `if imdb_id:` the identifier search and the ranking of what it found
IdSearch ==
    /\ search_pc = "id_search"
    /\ \E rs \in CandidateLists, links_subtitle \in BOOLEAN :
         LET imdb_results == ImdbIdResults(rs, links_subtitle, search_args.imdb_id,
                                           search_args.kind)
             ranked == Ranking(imdb_results, search_args, search_query)
         IN  /\ search_ranked' = ranked
             /\ search_pc' = IF ranked.filtered # <<>> THEN "returned" ELSE "resolve"
    /\ search_log' = Append(search_log, Step("imdb_id_search", search_args.imdb_id))
    /\ UNCHANGED <<search_args, search_query>>
    /\ UNCHANGED <<oldVars, infoVars, normVars, dlVars, smVars>>

\* a blank query with an identifier: lookup_title; `return []` when it
\* resolves nothing
ResolveTitle ==
    /\ search_pc = "resolve"
    /\ IF NeedsLookup(search_query, search_args.imdb_id)
       THEN \E resolved_title \in ResolvedTitles :
              /\ search_log' = Append(search_log, Step("lookup_title", resolved_title))
              /\ IF resolved_title # <<>>
                 THEN /\ search_query' = resolved_title
                      /\ search_pc' = "autocomplete"
                      /\ UNCHANGED search_ranked
                 ELSE /\ search_ranked' = NoRanking
                      /\ search_pc' = "returned"
                      /\ UNCHANGED search_query
       ELSE /\ search_pc' = "autocomplete"
            /\ UNCHANGED <<search_query, search_log, search_ranked>>
    /\ UNCHANGED search_args
    /\ UNCHANGED <<oldVars, infoVars, normVars, dlVars, smVars>>

\* _search_autocomplete(query) and the ranking of what it found
Autocomplete ==
    /\ search_pc = "autocomplete"
    /\ \E autocomplete_results \in CandidateLists :
         LET ranked == Ranking(autocomplete_results, search_args, search_query)
         IN  IF ranked.filtered # <<>>
             THEN /\ search_ranked' = ranked
                  /\ search_pc' = "returned"
             ELSE /\ search_ranked' = NoRanking
                  /\ search_pc' = "full"
    /\ search_log' = Append(search_log, Step("autocomplete", search_query))
    /\ UNCHANGED <<search_args, search_query>>
    /\ UNCHANGED <<oldVars, infoVars, normVars, dlVars, smVars>>

\* _search_full_page(query, kind); its ranking is returned as it is
FullPage ==
    /\ search_pc = "full"
    /\ \E search_results \in CandidateLists :
         search_ranked' = filter_search_results(
                              search_results, RankingQuery(search_args.query, search_query),
                              search_args.year, search_args.imdb_id, search_args.kind)
    /\ search_log' = Append(search_log, Step("full_page", search_query))
    /\ search_pc' = "returned"
    /\ UNCHANGED <<search_args, search_query>>
    /\ UNCHANGED <<oldVars, infoVars, normVars, dlVars, smVars>>

----------------------------------------------------------------------------
(* OpenSubtitlesScraper.download_subtitle (scraper.py)                     *)

\* faulty variant: the exception leaves the call as it was raised
EscapesUnwrapped(exception) == exception

\* `except Exception as e: raise DownloadError(...)` around the whole body
Escapes(exception) == "DownloadError"

\* exceptions of session_manager.get (make_request)
GetErrors == {"ScrapingError", "ServiceUnavailableError", "CloudflareError"}

\* content_type.startswith('application/zip') or actual_download_url.endswith('.zip')
TreatedAsZip(is_zip_type, url_is_zip) == is_zip_type \/ url_is_zip

\* the non-archive branch of the fallback: utf-8, else latin1
DirectFilePayload(name, bytes) ==
    LET d == Utf8Decode(bytes)
    IN  [filename |-> name,
         content |-> IF d.ok THEN d.text ELSE bytes,
         size |-> Len(bytes),
         encoding |-> "utf-8"]

DlStep(step, outcome, detail) == [step |-> step, outcome |-> outcome, detail |-> detail]

----------------------------------------------------------------------------
(* Download inputs and actions *)

SubtitleFilename == <<"s", ".", "s", "r", "t">>

\* downloaded archives: no archive at all, empty, without a subtitle, with
\* one subtitle, with two
Archives ==
    { [valid |-> FALSE, members |-> <<>>],
      [valid |-> TRUE, members |-> <<>>],
      [valid |-> TRUE,
       members |-> <<[filename |-> <<"c", ".", "n", "f", "o">>, size |-> 900, readable |-> TRUE]>>],
      [valid |-> TRUE,
       members |-> <<[filename |-> <<"a", ".", "s", "r", "t">>, size |-> 100, readable |-> TRUE]>>],
      [valid |-> TRUE,
       members |-> <<[filename |-> <<"a", ".", "s", "r", "t">>, size |-> 100, readable |-> TRUE],
                     [filename |-> <<"b", ".", "a", "s", "s">>, size |-> 500, readable |-> TRUE]>>] }

\* bodies of responses that are no archive: 'A', and E9, which is no UTF-8
FileBodies == { <<65>>, <<233>>, <<>> }

\* actual_download_url: the link of the download page, which may end in
\* '.zip', or subtitle_info.download_url when the page has none
DownloadUrls == {"link", "link.zip", "download_url"}

DownloadIdle ==
    /\ dl_pc = "idle"
    /\ dl_has_url = FALSE
    /\ dl_log = <<>>
    /\ dl_payloads = <<>>
    /\ dl_error = "none"
    /\ obtained = 0
    /\ closed = 0

\* download_subtitle(subtitle_info)
StartDownload ==
    /\ dl_pc = "idle"
    /\ dl_has_url' \in BOOLEAN
    /\ dl_pc' = "direct"
    /\ UNCHANGED <<dl_log, dl_payloads, dl_error, obtained, closed>>
    /\ UNCHANGED <<oldVars, infoVars, normVars, searchVars, smVars>>

\* the inner try: the direct download from dl.opensubtitles.org
DirectDownload ==
    /\ dl_pc = "direct"
    /\ \/ \* session_manager.get raises
          \E e \in GetErrors :
             /\ dl_log' = Append(dl_log, DlStep("direct", "failed", e))
             /\ dl_pc' = "fallback"
             /\ UNCHANGED <<dl_payloads, obtained, closed>>
       \/ \* the response is no archive: it is closed
          /\ dl_log' = Append(dl_log, DlStep("direct", "not_zip", "none"))
          /\ dl_pc' = "fallback"
          /\ obtained' = obtained + 1
          /\ closed' = closed + 1
          /\ UNCHANGED dl_payloads
       \/ \* an archive: the response is closed, then the archive is extracted
          \E archive \in Archives :
             LET r == extract_subtitle_from_zip(archive.members, archive.valid,
                                                SubtitleFilename)
             IN  /\ obtained' = obtained + 1
                 /\ closed' = closed + 1
                 /\ IF r.raised
                    THEN /\ dl_log' = Append(dl_log, DlStep("direct", "not_extracted", "DownloadError"))
                         /\ dl_pc' = "fallback"
                         /\ UNCHANGED dl_payloads
                    ELSE /\ dl_log' = Append(dl_log, DlStep("direct", "extracted", "none"))
                         /\ dl_pc' = "returned"
                         /\ dl_payloads' = Append(dl_payloads, r.selected[1])
    /\ UNCHANGED <<dl_has_url, dl_error>>
    /\ UNCHANGED <<oldVars, infoVars, normVars, searchVars, smVars>>

\* the fallback up to the download URL: the download page is fetched and parsed
FallbackPage ==
    /\ dl_pc = "fallback"
    /\ IF ~dl_has_url
       THEN \* raise DownloadError("No download URL available")
            /\ dl_log' = Append(dl_log, DlStep("fallback", "no_url", "DownloadError"))
            /\ dl_error' = Escapes("DownloadError")
            /\ dl_pc' = "raised"
            /\ UNCHANGED <<obtained, closed>>
       ELSE \/ \* session_manager.get raises
               \E e \in GetErrors :
                  /\ dl_log' = Append(dl_log, DlStep("fallback", "failed", e))
                  /\ dl_error' = Escapes(e)
                  /\ dl_pc' = "raised"
                  /\ UNCHANGED <<obtained, closed>>
            \/ \* the page is read and closed; parse_download_page raises
               /\ dl_log' = Append(dl_log, DlStep("fallback", "not_parsed", "ParseError"))
               /\ dl_error' = Escapes("ParseError")
               /\ dl_pc' = "raised"
               /\ obtained' = obtained + 1
               /\ closed' = closed + 1
            \/ \* download_info['requires_captcha']
               /\ dl_log' = Append(dl_log, DlStep("fallback", "captcha", "DownloadError"))
               /\ dl_error' = Escapes("DownloadError")
               /\ dl_pc' = "raised"
               /\ obtained' = obtained + 1
               /\ closed' = closed + 1
            \/ \* a download page; the wait, if any, is slept through
               \E waits \in BOOLEAN, url \in DownloadUrls :
                  /\ dl_log' = Append(dl_log, DlStep("fallback",
                                                     IF waits THEN "waited" ELSE "page", url))
                  /\ dl_pc' = "download"
                  /\ obtained' = obtained + 1
                  /\ closed' = closed + 1
                  /\ UNCHANGED dl_error
    /\ UNCHANGED <<dl_has_url, dl_payloads>>
    /\ UNCHANGED <<oldVars, infoVars, normVars, searchVars, smVars>>

\* the fallback from the download URL on: the file is fetched, the response
\* read and closed, and the payload taken from the archive or the body
FallbackDownload ==
    /\ dl_pc = "download"
    /\ \/ \* session_manager.get raises
          \E e \in GetErrors :
             /\ dl_log' = Append(dl_log, DlStep("download", "failed", e))
             /\ dl_error' = Escapes(e)
             /\ dl_pc' = "raised"
             /\ UNCHANGED <<dl_payloads, obtained, closed>>
       \/ \E is_zip_type \in BOOLEAN :
             /\ obtained' = obtained + 1
             /\ closed' = closed + 1
             /\ IF TreatedAsZip(is_zip_type, dl_log[Len(dl_log)].detail = "link.zip")
                THEN \E archive \in Archives :
                        LET r == extract_subtitle_from_zip(archive.members, archive.valid,
                                                           SubtitleFilename)
                        IN  \* bytes that are no archive come with no zip content type
                            /\ archive.valid \/ ~is_zip_type
                            /\ IF r.raised
                               THEN /\ dl_log' = Append(dl_log, DlStep("download", "not_extracted", "DownloadError"))
                                    /\ dl_error' = Escapes("DownloadError")
                                    /\ dl_pc' = "raised"
                                    /\ UNCHANGED dl_payloads
                               ELSE /\ dl_log' = Append(dl_log, DlStep("download", "extracted", "none"))
                                    /\ dl_payloads' = Append(dl_payloads, r.selected[1])
                                    /\ dl_pc' = "returned"
                                    /\ UNCHANGED dl_error
                ELSE \E body \in FileBodies :
                        /\ dl_log' = Append(dl_log, DlStep("download", "file", "none"))
                        /\ dl_payloads' = Append(dl_payloads,
                                                 DirectFilePayload(SubtitleFilename, body))
                        /\ dl_pc' = "returned"
                        /\ UNCHANGED dl_error
    /\ UNCHANGED dl_has_url
    /\ UNCHANGED <<oldVars, infoVars, normVars, searchVars, smVars>>

----------------------------------------------------------------------------
(* The responses of the other operations: what each operation obtains from *)
(* the session manager and what it closes before it returns or raises.     *)

\* _search_autocomplete: `finally: if response: response.close()`
SearchAutocomplete ==
    /\ obtained < MaxResponses
    /\ \/ \* session_manager.get raises: [] is returned
          UNCHANGED <<obtained, closed>>
       \/ \* a response: parsed or not, it is closed in the finally clause
          /\ obtained' = obtained + 1
          /\ closed' = closed + 1
    /\ UNCHANGED <<dl_pc, dl_has_url, dl_log, dl_payloads, dl_error>>
    /\ UNCHANGED <<oldVars, infoVars, normVars, searchVars, smVars>>

\* get_subtitles: the listing page, closed in the finally clause, and for an
\* episode the episode page, closed by _get_episode_subtitles
GetSubtitlesPage ==
    /\ obtained < MaxResponses
    /\ \/ \* session_manager.get raises: ScrapingError
          UNCHANGED <<obtained, closed>>
       \/ \E episode_page \in 0..1 :
             /\ obtained' = obtained + 1 + episode_page
             /\ closed' = closed + 1 + episode_page
    /\ UNCHANGED <<dl_pc, dl_has_url, dl_log, dl_payloads, dl_error>>
    /\ UNCHANGED <<oldVars, infoVars, normVars, searchVars, smVars>>

\* lookup_title: the IMDB page is read through response.text; the method has
\* no close() and no finally clause
LookupTitlePage ==
    /\ obtained < MaxResponses
    /\ \/ \* no request (malformed identifier, cache hit), or get raises
          UNCHANGED <<obtained, closed>>
       \/ \* a response: a title is extracted from it or not
          /\ obtained' = obtained + 1
          /\ UNCHANGED closed
    /\ UNCHANGED <<dl_pc, dl_has_url, dl_log, dl_payloads, dl_error>>
    /\ UNCHANGED <<oldVars, infoVars, normVars, searchVars, smVars>>

----------------------------------------------------------------------------
(* The transport: SessionManager.make_request (session_manager.py).  Each  *)
(* thread makes one call; the steps of a call are the points at which the  *)
(* shared fields are read or written.  Time is counted in half seconds.    *)

MAX_CONCURRENT_REQUESTS == 2

\* self.min_request_interval = 1.5
min_request_interval == 3

\* faulty variant: the permit is given back on a normal return only
ReleasesPermitOnReturn(outcome) == outcome = "ok"

\* `finally: self._request_semaphore.release()`
ReleasesPermit(outcome) == TRUE

\* how session.request ends: a response that passes raise_for_status, a
\* Cloudflare challenge (cf-ray header; the status is taken to be 403),
\* another HTTP error,
\* requests.Timeout, requests.ConnectionError
ResponseOutcomes == {"ok", "challenge", "http_error", "Timeout", "ConnectionError"}

\* the exception make_request raises for an outcome
RaisedFor(outcome) ==
    IF outcome = "Timeout" THEN "ScrapingError"
    ELSE IF outcome = "ConnectionError" THEN "ServiceUnavailableError"
    ELSE IF outcome = "challenge" THEN "CloudflareError"
    ELSE "ScrapingError"

\* _wait_for_rate_limit: how long to sleep
SleepTime(current_time, last) ==
    IF current_time - last < min_request_interval
    THEN min_request_interval - (current_time - last)
    ELSE 0

\* what is remembered of the calls of close(): the session objects closed so
\* far, and whether one was closed under a request of another thread
NoClosures == [closed |-> {}, in_use |-> FALSE]

ClosedSessions == closures.closed

NoWork == [pc |-> "idle", session |-> 0, wake |-> 0, retried |-> FALSE,
           took |-> 0, gave |-> 0, requests |-> 0, error |-> "none"]

\* what is remembered of the requests started so far: when the latest one
\* started (-1: none yet), the smallest distance between two starts (no more
\* than min_request_interval is remembered), whether one ran on a closed session
NoneSent == [last |-> -1, gap |-> min_request_interval, on_closed |-> FALSE]

Min(a, b) == IF a < b THEN a ELSE b

Started(start, s) ==
    [last |-> start,
     gap |-> IF sent.last < 0 THEN sent.gap ELSE Min(sent.gap, start - sent.last),
     on_closed |-> sent.on_closed \/ s \in ClosedSessions]

\* the threads using the session object s right now
UsersOf(s, but) ==
    {u \in DOMAIN worker : u # but /\ worker[u].pc = "in_flight" /\ worker[u].session = s}

\* close(): under the lock, the session object is closed and forgotten
Closure(by) ==
    IF session = 0 THEN closures
    ELSE [closed |-> closures.closed \cup {session},
          in_use |-> closures.in_use \/ UsersOf(session, by) # {}]

----------------------------------------------------------------------------
(* Transport actions *)

\* no SessionManager is in use
TransportIdle ==
    /\ request_semaphore = MAX_CONCURRENT_REQUESTS
    /\ last_request_time = 0
    /\ session = 0
    /\ sessions = 0
    /\ clock = 0
    /\ worker = [t \in {} |-> NoWork]
    /\ sent = NoneSent
    /\ closures = NoClosures

\* SessionManager.__init__; time.time() is far from last_request_time = 0
InitSessionManager(threads) ==
    /\ request_semaphore = MAX_CONCURRENT_REQUESTS
    /\ last_request_time = 0
    /\ session = 0
    /\ sessions = 0
    /\ clock = min_request_interval
    /\ worker = [t \in threads |-> NoWork]
    /\ sent = NoneSent
    /\ closures = NoClosures

\* time passes
Advance ==
    /\ DOMAIN worker # {}
    /\ clock < MaxClock + min_request_interval
    /\ clock' = clock + 1
    /\ UNCHANGED <<request_semaphore, last_request_time, session, sessions, worker, sent,
                   closures>>
    /\ UNCHANGED <<oldVars, infoVars, normVars, searchVars, dlVars>>

\* a thread calls make_request and starts to wait for a permit; the threads
\* are numbered in the order of their calls
MakeRequest ==
    /\ \E t \in DOMAIN worker :
         /\ worker[t].pc = "idle"
         /\ \A u \in DOMAIN worker : u < t => worker[u].pc # "idle"
         /\ worker' = [worker EXCEPT ![t].pc = "acquire"]
    /\ UNCHANGED <<request_semaphore, last_request_time, session, sessions, clock, sent,
                   closures>>
    /\ UNCHANGED <<oldVars, infoVars, normVars, searchVars, dlVars>>

\* self._request_semaphore.acquire(timeout=60) returns True
Acquire ==
    /\ \E t \in DOMAIN worker :
         /\ worker[t].pc = "acquire"
         /\ request_semaphore > 0
         /\ request_semaphore' = request_semaphore - 1
         /\ worker' = [worker EXCEPT ![t].pc = "rate_limit", ![t].took = @ + 1]
    /\ UNCHANGED <<last_request_time, session, sessions, clock, sent, closures>>
    /\ UNCHANGED <<oldVars, infoVars, normVars, searchVars, dlVars>>

\* it returns False: no permit came free within the timeout; ScrapingError
\* is raised in front of the try statement
AcquireTimeout ==
    /\ \E t \in DOMAIN worker :
         /\ worker[t].pc = "acquire"
         /\ request_semaphore = 0
         /\ worker' = [worker EXCEPT ![t].pc = "raised", ![t].error = "ScrapingError"]
    /\ UNCHANGED <<request_semaphore, last_request_time, session, sessions, clock, sent,
                   closures>>
    /\ UNCHANGED <<oldVars, infoVars, normVars, searchVars, dlVars>>

\* _wait_for_rate_limit up to time.sleep: the clock and last_request_time
\* are read and the thread sleeps for the difference
WaitForRateLimit ==
    /\ \E t \in DOMAIN worker :
         /\ worker[t].pc = "rate_limit"
         /\ worker' = [worker EXCEPT ![t].pc = "sleeping",
                                     ![t].wake = clock + SleepTime(clock, last_request_time)]
    /\ UNCHANGED <<request_semaphore, last_request_time, session, sessions, clock, sent,
                   closures>>
    /\ UNCHANGED <<oldVars, infoVars, normVars, searchVars, dlVars>>

\* the sleep is over: self.last_request_time = time.time(), then get_session
\* creates a session if there is none
Prepare ==
    /\ \E t \in DOMAIN worker :
         /\ worker[t].pc = "sleeping"
         /\ clock >= worker[t].wake
         /\ last_request_time' = clock
         /\ IF session = 0
            THEN /\ sessions' = sessions + 1
                 /\ session' = sessions + 1
            ELSE UNCHANGED <<session, sessions>>
         /\ worker' = [worker EXCEPT ![t].pc = "send", ![t].session = session']
    /\ UNCHANGED <<request_semaphore, clock, sent, closures>>
    /\ UNCHANGED <<oldVars, infoVars, normVars, searchVars, dlVars>>

\* session.request(method, url, **kwargs) starts
SendRequest ==
    /\ \E t \in DOMAIN worker :
         /\ worker[t].pc = "send"
         /\ sent' = Started(clock, worker[t].session)
         /\ worker' = [worker EXCEPT ![t].pc = "in_flight", ![t].requests = @ + 1]
    /\ UNCHANGED <<request_semaphore, last_request_time, session, sessions, clock, closures>>
    /\ UNCHANGED <<oldVars, infoVars, normVars, searchVars, dlVars>>

\* session.request ends.  A challenge on the first request leads to the
\* retry; everything else ends the call, through the finally clause, and
\* the local variables of the call are gone
Receive ==
    /\ \E t \in DOMAIN worker, outcome \in ResponseOutcomes :
         /\ worker[t].pc = "in_flight"
         /\ IF outcome = "challenge" /\ ~worker[t].retried
            THEN /\ worker' = [worker EXCEPT ![t].pc = "challenged"]
                 /\ UNCHANGED request_semaphore
            ELSE /\ worker' = [worker EXCEPT
                                 ![t].pc = IF outcome = "ok" THEN "returned" ELSE "raised",
                                 ![t].error = IF outcome = "ok" THEN "none" ELSE RaisedFor(outcome),
                                 ![t].session = 0, ![t].wake = 0,
                                 ![t].gave = IF ReleasesPermit(outcome) THEN @ + 1 ELSE @]
                 /\ request_semaphore' = IF ReleasesPermit(outcome)
                                         THEN request_semaphore + 1
                                         ELSE request_semaphore
    /\ UNCHANGED <<last_request_time, session, sessions, clock, sent, closures>>
    /\ UNCHANGED <<oldVars, infoVars, normVars, searchVars, dlVars>>

\* the challenge is handled: response.close(), self.close(), and get_session
\* creates the session for the second request
CloseAndRecreate ==
    /\ \E t \in DOMAIN worker :
         /\ worker[t].pc = "challenged"
         /\ closures' = Closure(t)
         /\ sessions' = sessions + 1
         /\ session' = sessions + 1
         /\ worker' = [worker EXCEPT ![t].pc = "send", ![t].session = sessions + 1,
                                     ![t].retried = TRUE]
    /\ UNCHANGED <<request_semaphore, last_request_time, clock, sent>>
    /\ UNCHANGED <<oldVars, infoVars, normVars, searchVars, dlVars>>

----------------------------------------------------------------------------
(* Specifications *)

\* every component but the one a specification runs is idle
CoreIdle == RankIdle /\ LangIdle /\ ZipIdle

MoreIdle == InfoIdle /\ NormIdle /\ SearchIdle /\ DownloadIdle /\ TransportIdle

RestIdle == DecodeIdle /\ CacheIdle /\ GateIdle /\ ExtractIdle /\ MoreIdle

\* one search: pages are parsed, then ranked
Init == InitRank /\ LangIdle /\ ZipIdle /\ RestIdle

Next == ParseResult \/ SearchByImdbId \/ FilterSearchResults

Spec == Init /\ [][Next]_vars

\* one subtitle listing
InitLang == CoreIdle /\ RestIdle

NextLang == ParseSubtitleRow \/ GetSubtitles \/ BazarrSearch

SpecLang == InitLang /\ [][NextLang]_vars

\* one archive extraction
InitZip == CoreIdle /\ RestIdle

NextZip == AddZipMember \/ ExtractSubtitleFromZip

SpecZip == InitZip /\ [][NextZip]_vars


\* one decoding of a file's bytes
InitDecode == CoreIdle /\ RestIdle

NextDecode == ReadByte \/ DecodeSubtitleContent

SpecDecode == InitDecode /\ [][NextDecode]_vars

\* lookup_title called by one thread, one call after the other
InitTitle == CoreIdle /\ DecodeIdle /\ GateIdle /\ ExtractIdle /\ MoreIdle /\ InitCache({1})

NextTitle == Tick \/ LookupTitle \/ Respond \/ Stamp \/ Store

SpecTitle == InitTitle /\ [][NextTitle]_vars

\* lookup_title called by two threads at once
InitRace == CoreIdle /\ DecodeIdle /\ GateIdle /\ ExtractIdle /\ MoreIdle /\ InitCache({1, 2})

SpecRace == InitRace /\ [][NextTitle]_vars

\* API requests arriving at the admission gate
InitAdmission == CoreIdle /\ DecodeIdle /\ CacheIdle /\ ExtractIdle /\ MoreIdle /\ InitGate

NextAdmission == Arrive \/ AdmitWaiting \/ Wait \/ GiveUp \/ Finish

SpecAdmission == InitAdmission /\ [][NextAdmission]_vars

\* one IMDB page and the extraction of its title
InitExtract == CoreIdle /\ RestIdle

NextExtract == ParsePage \/ ExtractTitleFromHtml

SpecExtract == InitExtract /\ [][NextExtract]_vars

\* the construction of one SubtitleInfo
OldIdle == DecodeIdle /\ CacheIdle /\ GateIdle /\ ExtractIdle

InitInfo == CoreIdle /\ RestIdle

NextInfo == TypeFilename \/ ConstructSubtitleInfo

SpecInfo == InitInfo /\ [][NextInfo]_vars

\* one text normalised, and its result normalised again
InitNormalize == CoreIdle /\ RestIdle

NextNormalize == TypeTitle \/ NormalizeTitle \/ NormalizeAgain

SpecNormalize == InitNormalize /\ [][NextNormalize]_vars

\* one call of search_movies or search_tv_shows
InitSearch == CoreIdle /\ RestIdle

NextSearch == StartSearch \/ IdSearch \/ ResolveTitle \/ Autocomplete \/ FullPage

SpecSearch == InitSearch /\ [][NextSearch]_vars

\* one call of download_subtitle
InitDownload == CoreIdle /\ RestIdle

NextDownload == StartDownload \/ DirectDownload \/ FallbackPage \/ FallbackDownload

SpecDownload == InitDownload /\ [][NextDownload]_vars

\* the operations of the scraper that obtain responses
InitResponses == CoreIdle /\ RestIdle

NextResponses ==
    \/ SearchAutocomplete \/ GetSubtitlesPage \/ LookupTitlePage
    \/ StartDownload \/ DirectDownload \/ FallbackPage \/ FallbackDownload

SpecResponses == InitResponses /\ [][NextResponses]_vars

\* three threads, one make_request call each, on one SessionManager
InitTransport ==
    /\ CoreIdle /\ OldIdle
    /\ InfoIdle /\ NormIdle /\ SearchIdle /\ DownloadIdle
    /\ InitSessionManager({1, 2, 3})

NextTransport ==
    \/ Advance \/ MakeRequest \/ Acquire \/ AcquireTimeout \/ WaitForRateLimit \/ Prepare
    \/ SendRequest \/ Receive \/ CloseAndRecreate

SpecTransport == InitTransport /\ [][NextTransport]_vars
----------------------------------------------------------------------------
(* Claims about the ranker, checked under Spec *)

Ranked == rank_calls > 0

Returned == {filtered[j] : j \in 1..Len(filtered)}

\* the three filters as the specification words them, on the search's arguments
KindOk(c) == kind = <<>> \/ c.kind = kind
IdOk(c) == imdb_id = <<>> \/ c.imdb_id = <<>> \/ c.imdb_id = imdb_id
YearOk(c) == year = 0 \/ c.year = 0 \/ (c.year - year) \in -1..1

\* the candidate got as far as the scoring step of this search
Scored(c) == c.relevance_score # Unset

AtLeast30(c) == Scored(c) /\ c.relevance_score[1] >= 30 * c.relevance_score[2]

SameScore(c, d) == c.relevance_score[1] * d.relevance_score[2]
                     = d.relevance_score[1] * c.relevance_score[2]

SameFields(c, d) ==
    /\ c.title = d.title
    /\ c.year = d.year
    /\ c.imdb_id = d.imdb_id
    /\ c.url = d.url
    /\ c.kind = d.kind

\* C1: the ranker returns exactly the candidates that pass the kind,
\* identifier and year filters and score at least 30, in non-increasing
\* order of relevance_score.
C1_RankingFloor ==
    Ranked =>
      /\ \A i \in 1..Len(results) :
           i \in Returned <=>
             (KindOk(results[i]) /\ IdOk(results[i]) /\ YearOk(results[i])
              /\ AtLeast30(results[i]))
      /\ \A j \in 1..(Len(filtered) - 1) :
           LET hi == results[filtered[j]].relevance_score
               lo == results[filtered[j + 1]].relevance_score
           IN  hi[1] * lo[2] >= lo[1] * hi[2]

\* a ranking that kept one candidate with a score of exactly 30 and left out
\* one that passed the filters with a lower score
C1_Witness ==
    /\ Ranked
    /\ \E i \in Returned : results[i].relevance_score[1] = 30 * results[i].relevance_score[2]
    /\ \E i \in 1..Len(results) :
         /\ i \notin Returned
         /\ KindOk(results[i]) /\ IdOk(results[i]) /\ YearOk(results[i])

\* C2: a candidate that passes the filters scores base + boosts: base 100
\* for equal normalized texts, 80 when one contains the other, otherwise
\* 60 * common words / all words; +10 for the requested year, +20 for the
\* requested identifier.  Nothing else enters, in particular not the score
\* the object carried before the call.
C2_ScoreFormula ==
    Ranked =>
      \A i \in 1..Len(results) :
        LET c == results[i]
            s == c.relevance_score
            a == normalize_title(c.title)
            b == normalize_title(query)
            common == Cardinality(WordSet(a) \cap WordSet(b))
            all == Cardinality(WordSet(a) \cup WordSet(b))
            boosts == (IF year # 0 /\ c.year = year THEN 10 ELSE 0)
                      + (IF imdb_id # <<>> /\ c.imdb_id = imdb_id THEN 20 ELSE 0)
        IN  (KindOk(c) /\ IdOk(c) /\ YearOk(c)) =>
              /\ Scored(c)
              /\ IF a = b THEN s[1] = (100 + boosts) * s[2]
                 ELSE IF IsSubstring(a, b) \/ IsSubstring(b, a) THEN s[1] = (80 + boosts) * s[2]
                 ELSE IF all = 0 THEN s[1] = boosts * s[2]
                 ELSE s[1] * all = (60 * common + boosts * all) * s[2]

\* the same objects ranked a second time; one of them shares one word of
\* three with the query and has the requested year: 20 + 10
C2_Witness ==
    /\ rank_calls = 2
    /\ year # 0
    /\ \E i \in Returned :
         /\ results[i].year = year
         /\ Cardinality(WordSet(normalize_title(results[i].title))
                        \cup WordSet(normalize_title(query))) = 3
         /\ Cardinality(WordSet(normalize_title(results[i].title))
                        \cap WordSet(normalize_title(query))) = 1
         /\ results[i].relevance_score[1] = 30 * results[i].relevance_score[2]

\* C3: with a requested year, a candidate that has a year is dropped when
\* the years differ by more than 1 and is not dropped for its year when they
\* differ by 0 or 1; a candidate without a year, or any candidate when no
\* year is requested, is never dropped for its year.
C3_YearTolerance ==
    Ranked =>
      \A i \in 1..Len(results) :
        LET c == results[i]
            far == year # 0 /\ c.year # 0 /\ (c.year - year > 1 \/ year - c.year > 1)
        IN  /\ far => i \notin Returned
            /\ (~far /\ KindOk(c) /\ IdOk(c)) =>
                 (Scored(c) /\ (i \in Returned <=> AtLeast30(c)))

\* one candidate a year off the requested year is returned, another two
\* years off, which passes the other filters, is not
C3_Witness ==
    /\ Ranked
    /\ year # 0
    /\ \E i \in Returned : results[i].year # 0 /\ results[i].year - year \in {-1, 1}
    /\ \E i \in 1..Len(results) :
         /\ i \notin Returned
         /\ results[i].year # 0 /\ results[i].year - year \in {-2, 2}
         /\ KindOk(results[i]) /\ IdOk(results[i])

\* C4: with a requested identifier, no returned candidate carries another
\* identifier, a candidate with another identifier is always dropped, and a
\* candidate without an identifier is never dropped for that.
C4_IdentifierFilter ==
    (Ranked /\ imdb_id # <<>>) =>
      \A i \in 1..Len(results) :
        LET c == results[i]
        IN  /\ i \in Returned => c.imdb_id \in {<<>>, imdb_id}
            /\ (c.imdb_id # <<>> /\ c.imdb_id # imdb_id) => i \notin Returned
            /\ (c.imdb_id = <<>> /\ KindOk(c) /\ YearOk(c)) =>
                 (Scored(c) /\ (i \in Returned <=> AtLeast30(c)))

\* a candidate without an identifier is returned, one with another
\* identifier is not
C4_Witness ==
    /\ Ranked
    /\ imdb_id # <<>>
    /\ \E i \in Returned : results[i].imdb_id = <<>>
    /\ \E i \in 1..Len(results) :
         /\ i \notin Returned
         /\ results[i].imdb_id \notin {<<>>, imdb_id}
         /\ KindOk(results[i]) /\ YearOk(results[i])

\* C5: the returned list is in descending order of score and candidates of
\* equal score keep their relative input order.
C5_StableOrder ==
    Ranked =>
      \A j \in 1..Len(filtered), l \in 1..Len(filtered) :
        j < l =>
          LET hi == results[filtered[j]]
              lo == results[filtered[l]]
          IN  /\ hi.relevance_score[1] * lo.relevance_score[2]
                   >= lo.relevance_score[1] * hi.relevance_score[2]
              /\ SameScore(hi, lo) => filtered[j] < filtered[l]

\* two candidates of equal score returned behind a later candidate of a higher
\* score, or simply two of equal score
C5_Witness ==
    /\ Ranked
    /\ \E j \in 1..Len(filtered), l \in 1..Len(filtered) :
         /\ j < l
         /\ SameScore(results[filtered[j]], results[filtered[l]])
         /\ results[filtered[j]].title # results[filtered[l]].title

\* C6 as claimed: the output is a deduplicated subset of the input, so of two
\* input candidates that agree in every field at most one is returned.
C6_Deduplicated ==
    Ranked =>
      /\ \A j \in 1..Len(filtered) : filtered[j] \in 1..Len(results)
      /\ \A i \in Returned, l \in Returned :
           (i # l) => ~SameFields(results[i], results[l])

\* C6 as amended: the output is a subset of the input that is not
\* deduplicated: every returned candidate is an element of the input list and
\* is returned once, and two input candidates that agree in every field are
\* both returned or both left out.
C6_SubsetNotDeduplicated ==
    Ranked =>
      /\ \A j \in 1..Len(filtered) : filtered[j] \in 1..Len(results)
      /\ \A j \in 1..Len(filtered), l \in 1..Len(filtered) :
           (j # l) => filtered[j] # filtered[l]
      /\ \A i \in 1..Len(results), l \in 1..Len(results) :
           SameFields(results[i], results[l]) => (i \in Returned <=> l \in Returned)

\* two candidates that agree in every field, both returned
C6_Witness ==
    /\ Ranked
    /\ \E i \in Returned, l \in Returned : i # l /\ SameFields(results[i], results[l])

----------------------------------------------------------------------------
(* Claims about the subtitle listing, checked under SpecLang *)

ReturnedSubtitles == {subtitles[j] : j \in 1..Len(subtitles)}

InListingOrder == \A j \in 1..(Len(subtitles) - 1) : subtitles[j] < subtitles[j + 1]

\* the record's lowercased code is a requested token, lowercased, or the
\* two-letter form the alias table gives for that token
Accepted(sub, requested) ==
    \E n \in 1..Len(requested) :
      LET token == Lower(requested[n])
      IN  \/ Lower(sub.language) = token
          \/ token \in DOMAIN lang_mapping /\ Lower(sub.language) = lang_mapping[token]

\* C7: with a non-empty list of requested languages, get_subtitles retains
\* exactly the records whose lowercased code is a requested token,
\* lowercased, or its two-letter form from the alias table, in their listing
\* order.
C7_LanguageFilter ==
    (listing = "returned" /\ languages.given /\ languages.list # <<>>) =>
      /\ \A i \in 1..Len(page_subtitles) :
           i \in ReturnedSubtitles <=> Accepted(page_subtitles[i], languages.list)
      /\ InListingOrder

\* the request ['eng'] on a listing with an 'en' and another record: the
\* 'en' record is returned, the other is not
C7_Witness ==
    /\ listing = "returned"
    /\ languages = LanguageList(<< <<"e", "n", "g">> >>)
    /\ \E i \in ReturnedSubtitles : page_subtitles[i].language = <<"e", "n">>
    /\ \E i \in 1..Len(page_subtitles) : i \notin ReturnedSubtitles

\* the caller asked for no language: languages is None or empty on a direct
\* call, the criterion carries no 'sublanguageid' on the Bazarr route
NoLanguageRequested ==
    \/ route = "direct" /\ (~languages.given \/ languages.list = <<>>)
    \/ route = "bazarr" /\ ~criterion.has_sublanguageid

\* C8: when the caller requests no languages, directly or through the Bazarr
\* search route, every record parsed from the page is returned.
C8_NoLanguagesNoFilter ==
    (listing = "returned" /\ NoLanguageRequested) => subtitles = Refs(page_subtitles)

----------------------------------------------------------------------------
(* Claims about the archive extraction, checked under SpecZip *)

DotSrt == <<".", "s", "r", "t">>

NameMatches(file) == IsSubstring(Lower(preferred_filename), Lower(file.filename))

\* the extension is compared as the code compares it, on the lowercased name
IsSrtFile(file) == EndsWith(Lower(file.filename), DotSrt)

\* C9: of two or more payloads the first whose lowercased name contains the
\* lowercased preferred filename is returned; failing that the largest .srt
\* payload, also when another payload is larger; failing that the largest
\* payload.  A single payload is returned whatever the preferred filename.
C9_ArchiveSelection ==
    (extraction = "returned") =>
      LET files == subtitle_files
          best == selected[1]
          n == Len(files)
      IN  IF n = 1 THEN best = files[1]
          ELSE IF preferred_filename # <<>> /\ \E i \in 1..n : NameMatches(files[i])
          THEN \E i \in 1..n :
                 /\ best = files[i]
                 /\ NameMatches(files[i])
                 /\ \A j \in 1..(i - 1) : ~NameMatches(files[j])
          ELSE IF \E i \in 1..n : IsSrtFile(files[i])
          THEN /\ \E i \in 1..n : best = files[i]
               /\ IsSrtFile(best)
               /\ \A i \in 1..n : IsSrtFile(files[i]) => files[i].size <= best.size
          ELSE /\ \E i \in 1..n : best = files[i]
               /\ \A i \in 1..n : files[i].size <= best.size

\* no name matches the preferred filename, and the .srt payload returned is
\* smaller than another payload that is no .srt file
C9_Witness ==
    /\ extraction = "returned"
    /\ Len(subtitle_files) >= 2
    /\ preferred_filename # <<>>
    /\ \A i \in 1..Len(subtitle_files) : ~NameMatches(subtitle_files[i])
    /\ IsSrtFile(selected[1])
    /\ \E i \in 1..Len(subtitle_files) :
         ~IsSrtFile(subtitle_files[i]) /\ subtitle_files[i].size > selected[1].size

\* a member the extraction can use: no directory, a subtitle extension, readable
UsableMember(i) ==
    LET name == zip_members[i].filename
        ext == IF Len(name) >= 4 THEN Lower(SubSeq(name, Len(name) - 3, Len(name))) ELSE <<>>
    IN  /\ ext \in SubtitleExtensions
        /\ \A j \in i..Len(zip_members) :
             (zip_members[j].filename = name
              /\ \A l \in (j + 1)..Len(zip_members) : zip_members[l].filename # name)
             => zip_members[j].readable

\* C10: an extraction returns exactly one payload, taken from a subtitle file
\* of the bundle, or signals the download error; a bundle without a usable
\* subtitle file always signals the error.
C10_ExtractionOutcome ==
    /\ extraction \in {"idle", "returned", "DownloadError"}
    /\ extraction = "returned" =>
         /\ Len(selected) = 1
         /\ \E i \in 1..Len(zip_members) :
              /\ UsableMember(i)
              /\ selected[1].member = i
              /\ selected[1].filename = sanitize_filename(zip_members[i].filename)
    /\ extraction = "DownloadError" => selected = <<>>
    /\ (extraction # "idle" /\ ~\E i \in 1..Len(zip_members) : UsableMember(i))
         => extraction = "DownloadError"

\* an archive with members, none of them a usable subtitle file: the error
C10_Witness ==
    /\ extraction = "DownloadError"
    /\ zip_valid
    /\ Len(zip_members) >= 2
    /\ selected = <<>>

----------------------------------------------------------------------------
(* Claims about subtitle decoding *)

Decoded == decode_state # "idle"

\* the order of encodings the decoder is said to follow
ListedEncodings == <<"utf-8", "utf-8-sig", "latin1", "cp1252", "iso-8859-1">>

\* the listed encodings that decode the content without error
Decodable == {k \in 1..Len(ListedEncodings) : Decode(ListedEncodings[k], content).ok}

FirstDecodable == CHOOSE k \in Decodable : \A j \in Decodable : k <= j

\* C11: decoding any byte sequence returns a text and never raises; the text
\* is the normalized decode under the first listed encoding that decodes
\* without error, and the forced decode with replacement characters is
\* used only when no listed encoding decodes.
C11_DecodingNeverFails ==
    Decoded =>
      /\ decode_state = "returned"
      /\ IF Decodable = {}
         THEN /\ decode_encoding = "replace"
              /\ decoded = normalize_subtitle_content(Utf8Replace(content))
         ELSE /\ decode_encoding = ListedEncodings[FirstDecodable]
              /\ decoded = normalize_subtitle_content(
                               Decode(ListedEncodings[FirstDecodable], content).text)

\* bytes that are no UTF-8 were decoded, as Latin-1, to a non-empty text
C11_Witness ==
    /\ Decoded
    /\ ~Utf8Decode(content).ok
    /\ decode_encoding = "latin1"
    /\ decoded # <<>>

\* whitespace other than the line feed
InlineSpace == UnicodeSpace \ {LF}

\* C12: the normalized content holds no carriage return, no line begins or
\* ends with whitespace, no two blank lines follow each other, and a
\* non-empty content ends with exactly one line feed.
C12_NormalizedContent ==
    Decoded =>
      LET n == Len(decoded)
      IN  /\ \A i \in 1..n : decoded[i] # CR
          /\ \A i \in 1..n :
               decoded[i] \in InlineSpace =>
                 /\ i > 1 /\ decoded[i - 1] # LF
                 /\ i < n /\ decoded[i + 1] # LF
          /\ ~(n >= 2 /\ decoded[1] = LF /\ decoded[2] = LF)
          /\ \A i \in 1..(n - 2) :
               ~(decoded[i] = LF /\ decoded[i + 1] = LF /\ decoded[i + 2] = LF)
          /\ n > 0 => (decoded[n] = LF /\ (n >= 2 => decoded[n - 1] # LF))

\* a content with a carriage return, a line that begins with a space and
\* two blank lines in a row was normalized to a non-empty text
C12_Witness ==
    /\ Decoded
    /\ \E i \in 1..Len(content) : content[i] = CR
    /\ content # <<>> /\ content[1] = 32
    /\ \E i \in 1..(Len(content) - 1) :
         content[i] \in {LF, CR} /\ content[i + 1] \in {LF, CR}
         /\ ~(content[i] = CR /\ content[i + 1] = LF)
    /\ decoded # <<>>

----------------------------------------------------------------------------
(* Claims about the IMDB title cache *)

\* a lookup_title call of caller c has returned
Completed(c) == call[c].started /\ call[c].pc = "idle"

\* no lookup_title call is under way
Quiet == \A c \in callers : call[c].pc = "idle"

\* the entry for its identifier that the call found, and its age then
FoundEntry(c) == call[c].id \in DOMAIN call[c].cache0

AgeFound(c) == call[c].t0 - call[c].cache0[call[c].id].timestamp

\* the timestamps stored for an identifier
Stamps(id) == {w[3] : w \in {x \in writes : x[1] = id}}

\* every external lookup issued for the identifier gave a title that was stored
AllSucceeded(id) == requests[id] = Cardinality(Stamps(id))

\* the external lookups that calls at the given times need when a call
\* within 3600 s of the latest fetch is served from the cache: each call
\* that is not takes the next fetch time of `stamps`
RECURSIVE LookupsNeeded(_, _, _)
LookupsNeeded(times, stamps, fetched_at) ==
    IF times = <<>> THEN 0
    ELSE IF fetched_at >= 0 /\ Head(times) - fetched_at < 3600
         THEN LookupsNeeded(Tail(times), stamps, fetched_at)
         ELSE IF stamps = {} THEN 1 + Len(Tail(times))
         ELSE LET next == CHOOSE s \in stamps : \A u \in stamps : s <= u
              IN  1 + LookupsNeeded(Tail(times), stamps \ {next}, next)

\* C13: a call that finds an entry younger than 3600 s returns the cached
\* title and issues no external request; a call that finds an entry at least
\* 3600 s old issues exactly one; and over any sequence of calls whose
\* external lookups succeed the requests issued for an identifier are one per
\* TTL window in which it was looked up.
C13_CacheTTL ==
    /\ \A c \in callers :
         (Completed(c) /\ FoundEntry(c)) =>
            IF AgeFound(c) < 3600
            THEN /\ call[c].issued = 0
                 /\ call[c].result = call[c].cache0[call[c].id].title
            ELSE call[c].issued = 1
    /\ \A id \in Ids :
         (Quiet /\ AllSucceeded(id)) =>
            requests[id] = LookupsNeeded(calls_at[id], Stamps(id), -1)

\* three calls for one identifier at 0 s, 1800 s and 3600 s: the second was
\* served from the cache, the first and the third issued an external lookup
C13_Witness ==
    /\ Quiet
    /\ calls_at[tt1] = <<0, 1800, 3600>>
    /\ Stamps(tt1) = {0, 3600}
    /\ requests[tt1] = 2

\* the call's external lookup gave no title: it raised, or nothing was extracted
FailedLookup(c) == Completed(c) /\ call[c].issued = 1 /\ call[c].result = <<>>

WellFormedId(id) ==
    /\ Len(id) >= 3
    /\ id[1] = "t" /\ id[2] = "t"
    /\ \A i \in 3..Len(id) : id[i] \in DigitChars

\* C15: a lookup with an identifier that is not 'tt' followed by digits
\* returns None at once: it issues no external request and leaves the cache
\* unchanged.
C15_MalformedIdRejected ==
    \A c \in callers :
        (call[c].started /\ ~WellFormedId(call[c].id)) =>
            /\ call[c].issued = 0
            /\ call[c].result = <<>>
            /\ cache = call[c].cache0

\* C16: after a lookup of an identifier whose entry was at least 3600 s old
\* the cache no longer holds that entry (it holds a newer one or none),
\* and the entries of the other identifiers are as they were.
C16_ExpiredEvicted ==
    \A c \in callers :
        (Completed(c) /\ FoundEntry(c) /\ AgeFound(c) >= 3600) =>
            /\ (call[c].id \notin DOMAIN cache
                  \/ cache[call[c].id] # call[c].cache0[call[c].id])
            /\ \A k \in DOMAIN call[c].cache0 \ {call[c].id} :
                  k \in DOMAIN cache /\ cache[k] = call[c].cache0[k]

\* C17: with callers racing, every cache entry is a non-empty title with
\* the timestamp that one lookup of that identifier stored with it, a call
\* served from the cache returns a title that a lookup of that identifier
\* stored, and every caller is at a step of lookup_title or has returned.
C17_ConcurrentCache ==
    /\ \A k \in DOMAIN cache :
         /\ cache[k].title # <<>>
         /\ <<k, cache[k].title, cache[k].timestamp>> \in writes
    /\ \A c \in callers :
         /\ call[c].pc \in {"idle", "request", "stamp", "store"}
         /\ (Completed(c) /\ PassesIdCheck(call[c].id) /\ call[c].issued = 0) =>
              /\ call[c].result # <<>>
              /\ \E w \in writes : w[1] = call[c].id /\ w[2] = call[c].result

\* two callers missed on the same identifier, both issued a request, got
\* different titles and stored them at different times
C17_Witness ==
    /\ Quiet
    /\ requests[tt1] = 2
    /\ Cardinality({w \in writes : w[1] = tt1}) = 2
    /\ \A c \in callers : call[c].id = tt1 /\ call[c].cache0 = EmptyCache
    /\ \E c, d \in callers :
         /\ call[c].title # call[d].title
         /\ call[c].timestamp < call[d].timestamp
         /\ cache[tt1].title = call[c].title

----------------------------------------------------------------------------
(* Claims about the admission gate *)

\* the requests inside request_limit
InFlight == {r \in DOMAIN req : req[r].pc = "inside"}

Refused(r) == req[r].pc = "done" /\ req[r].took = 0

\* C18: never more than MAX_INFLIGHT_REQUESTS requests are inside
\* request_limit; with a queue timeout of 0 a request that arrives while
\* that many are inside is refused at once and none ever waits; with a
\* queue timeout no request waits longer than the timeout.
C18_AdmissionCap ==
    /\ Cardinality(InFlight) <= MAX_INFLIGHT_REQUESTS
    /\ \A r \in DOMAIN req :
         /\ req[r].waited <= REQUEST_QUEUE_TIMEOUT
         /\ REQUEST_QUEUE_TIMEOUT = 0 => req[r].pc # "waiting"
         /\ (REQUEST_QUEUE_TIMEOUT = 0 /\ req[r].full) =>
              (Refused(r) /\ req[r].response.http = 429)
         /\ (req[r].full /\ req[r].pc = "inside") => REQUEST_QUEUE_TIMEOUT > 0

\* with a cap of 2 and a queue timeout, a request waited out the timeout and
\* was refused while two requests were inside
C18_Witness ==
    /\ MAX_INFLIGHT_REQUESTS = 2
    /\ Cardinality(InFlight) = 2
    /\ \E r \in DOMAIN req :
         /\ Refused(r)
         /\ REQUEST_QUEUE_TIMEOUT > 0
         /\ req[r].waited = REQUEST_QUEUE_TIMEOUT

\* C19: a refused request gets HTTP 429 with Retry-After, on the Bazarr
\* routes too, has run no scraper work and has neither taken nor released a
\* permit; an admitted request that has finished has released exactly the
\* permit it took, however its body ended; free permits plus requests in
\* flight equal the cap, and the gate is full again when all have finished.
C19_PermitsConserved ==
    /\ permits + Cardinality(InFlight) = MAX_INFLIGHT_REQUESTS
    /\ \A r \in DOMAIN req :
         /\ Refused(r) =>
              /\ req[r].response = [http |-> 429, retry_after |-> 15, body |-> "none"]
              /\ ~req[r].worked
              /\ req[r].gave = 0
         /\ (req[r].pc = "done" /\ req[r].took = 1) => req[r].gave = 1
         /\ req[r].worked => req[r].took = 1
         /\ req[r].response.http = 429 => Refused(r)
    /\ (\A r \in DOMAIN req : req[r].pc \in {"new", "done"}) =>
          permits = MAX_INFLIGHT_REQUESTS

\* all requests have finished: a Bazarr request was refused, another one
\* ended in an exception, a third returned early, and the gate is full
C19_Witness ==
    /\ \A r \in DOMAIN req : req[r].pc = "done"
    /\ permits = MAX_INFLIGHT_REQUESTS
    /\ \E r, q, p \in DOMAIN req :
         /\ Refused(r) /\ req[r].route = "bazarr_search"
         /\ req[q].took = 1 /\ req[q].response.body = "500 Internal Server Error"
         /\ req[p].took = 1 /\ req[p].response.body = "400 Bad Request"


----------------------------------------------------------------------------
(* Title extraction (SpecExtract) *)

\* what each strategy yields on the page, taken on its own, in the order tried
StrategyYields(p) ==
    << IF p.h1.present THEN CleanHeading(p.h1.text) ELSE <<>>,
       IF p.span.present THEN CleanHeading(p.span.text) ELSE <<>>,
       IF p.meta.present THEN CleanMeta(p.meta.text) ELSE <<>>,
       IF p.title.present THEN CleanPageTitle(p.title.text) ELSE <<>> >>

FirstNonEmpty(ys) ==
    LET at == {i \in DOMAIN ys : ys[i] # <<>>}
    IN  IF at = {} THEN <<>> ELSE ys[CHOOSE i \in at : \A j \in at : i <= j]

\* C20: the extraction returns the title of the first strategy, in the fixed
\* order, that yields a non-empty title, also when an earlier strategy's
\* element is present with empty text; None is returned only when every
\* strategy yields nothing.
C20_FirstNonEmptyWins ==
    extract_state = "returned" =>
        LET first == FirstNonEmpty(StrategyYields(page))
        IN  /\ first # <<>> => extracted = Title(first)
            /\ extracted.is_none => first = <<>>

----------------------------------------------------------------------------
(* Subtitle record construction (SpecInfo) *)

\* C21: after __init__ the language of a SubtitleInfo is a non-empty string,
\* whatever the language and filename arguments were.
C21_LanguageNonEmpty ==
    info.constructed => info.language # <<>>

----------------------------------------------------------------------------
(* Title normalisation (SpecNormalize) *)

\* C22: normalize_title is idempotent: normalising the result of a call
\* returns that result unchanged, for every input the call returns for.
C22_NormalizeIdempotent ==
    norm_state = "twice" => renormalized = normalized

\* an input with upper case, punctuation and blanks, normalised twice
C22_Witness ==
    /\ norm_state = "twice"
    /\ normalized # norm_input
    /\ normalized # <<>>
    /\ \E i \in 1..Len(norm_input) : norm_input[i] = "-"

\* C23: the result of normalize_title holds only lowercase letters, digits
\* and single spaces between words (punctuation, underscores and symbols
\* became spaces), with no space at either end.
C23_OnlyAlphanumericWords ==
    norm_state # "idle" =>
        /\ \A i \in 1..Len(normalized) :
              normalized[i] \in LowerChars \cup DigitChars \cup {" "}
        /\ \A i \in 1..(Len(normalized) - 1) :
              ~(normalized[i] = " " /\ normalized[i + 1] = " ")
        /\ normalized # <<>> => normalized[1] # " " /\ normalized[Len(normalized)] # " "

----------------------------------------------------------------------------
(* The search flow (SpecSearch) *)

BlankWithId == Strip(search_args.query) = <<>> /\ search_args.imdb_id # <<>>

TitleSearches == {i \in 1..Len(search_log) : search_log[i].op \in {"autocomplete", "full_page"}}

Lookups == {i \in 1..Len(search_log) : search_log[i].op = "lookup_title"}

\* C24: in a search with a blank query and an identifier, every autocomplete
\* and full-page request comes after a lookup_title call that returned a
\* title and carries that title as its search text; when the title could
\* not be resolved the search returns the empty list and has issued no
\* autocomplete or full-page request.
C24_ResolveBeforeTitleSearch ==
    BlankWithId =>
        /\ \A i \in TitleSearches :
              \E j \in Lookups :
                 /\ j < i
                 /\ search_log[j].text # <<>>
                 /\ search_log[i].text = search_log[j].text
        /\ (\E j \in Lookups : search_log[j].text = <<>>) =>
              /\ search_pc = "returned"
              /\ search_ranked.filtered = <<>>
              /\ TitleSearches = {}

\* a blank query whose title was resolved, searched by autocomplete and by
\* the full page
C24_Witness ==
    /\ BlankWithId
    /\ search_args.query # <<>>
    /\ search_pc = "returned"
    /\ \E i, j \in TitleSearches : search_log[i].op # search_log[j].op

BlankQuery == normalize_title(search_args.query) = <<>>

PassesFilters(r) ==
    /\ PassesKind(r, search_args.kind)
    /\ PassesImdb(r, search_args.imdb_id)
    /\ PassesYear(r, search_args.year)

\* the year and identifier boosts of a candidate
Boosts(r) ==
    (IF search_args.year # 0 /\ r.year = search_args.year THEN 10 ELSE 0)
    + (IF search_args.imdb_id # <<>> /\ r.imdb_id = search_args.imdb_id THEN 20 ELSE 0)

\* against a blank query a title that is itself blank once normalized is an
\* exact match
BlankBase(r) == IF normalize_title(r.title) = <<>> THEN 100 ELSE 80

\* every candidate of the last ranking that passes the filters is returned
\* with a score of at least 80
AllPassingReturned ==
    \A i \in 1..Len(search_ranked.results) :
       PassesFilters(search_ranked.results[i]) =>
          /\ \E p \in 1..Len(search_ranked.filtered) : search_ranked.filtered[p] = i
          /\ ScoreGE(search_ranked.results[i].relevance_score, 80)

\* the returned list is in descending order of Key, input order among equals
OrderedBy(Key(_)) ==
    \A p, q \in 1..Len(search_ranked.filtered) :
       p < q =>
          LET a == search_ranked.filtered[p]
              b == search_ranked.filtered[q]
          IN  \/ Key(search_ranked.results[a]) > Key(search_ranked.results[b])
              \/ /\ Key(search_ranked.results[a]) = Key(search_ranked.results[b])
                 /\ a < b

\* C30 as stated: with a blank query every candidate that passes the filters
\* is returned with at least 80, also after a title was resolved, and the
\* order of the result is decided by the boosts and the input order alone.
C30_BlankQueryOrder ==
    (BlankQuery /\ search_pc = "returned") =>
        AllPassingReturned /\ OrderedBy(Boosts)

\* C30: with a blank query every candidate that passes the kind, identifier
\* and year filters is returned with a score of at least 80, also after a
\* title was resolved from the identifier; the order of the result is
\* decided by the boosts and the input order among candidates whose titles
\* normalize to a non-empty string, and a candidate whose title normalizes
\* to the empty string counts as an exact match (100 instead of 80).
C30_BlankQueryRanking ==
    (BlankQuery /\ search_pc = "returned") =>
        AllPassingReturned /\ OrderedBy(LAMBDA r : BlankBase(r) + Boosts(r))

\* a blank query, its title resolved, and two candidates returned in an
\* order other than the input order
C30_Witness ==
    /\ BlankQuery
    /\ search_pc = "returned"
    /\ \E j \in Lookups : search_log[j].text # <<>>
    /\ Len(search_ranked.filtered) = 2
    /\ search_ranked.filtered[1] > search_ranked.filtered[2]
    /\ \A i \in 1..2 : normalize_title(search_ranked.results[i].title) # <<>>

----------------------------------------------------------------------------
(* download_subtitle (SpecDownload) *)

DlSteps(names) == {i \in 1..Len(dl_log) : dl_log[i].step \in names}

\* C25: a call of download_subtitle ends by returning exactly one payload or
\* by raising DownloadError, and nothing else; the page-based fallback is
\* entered only after the direct download failed, gave no archive, or gave
\* an archive that could not be extracted; a fallback without a download
\* URL and a download page with a CAPTCHA end in DownloadError without a
\* payload.
C25_DownloadOutcome ==
    /\ dl_pc = "returned" => Len(dl_payloads) = 1 /\ dl_error = "none"
    /\ dl_pc = "raised" => dl_payloads = <<>> /\ dl_error = "DownloadError"
    /\ dl_pc \notin {"returned", "raised"} => dl_payloads = <<>> /\ dl_error = "none"
    /\ DlSteps({"fallback", "download"}) # {} =>
          /\ dl_log[1].step = "direct"
          /\ dl_log[1].outcome \in {"failed", "not_zip", "not_extracted"}
    /\ \A i \in 1..Len(dl_log) :
          dl_log[i].outcome \in {"no_url", "captcha"} =>
             dl_pc = "raised" /\ dl_payloads = <<>> /\ dl_error = "DownloadError"

\* the archive of the direct download could not be extracted and the
\* download page asked for a CAPTCHA
C25_Witness ==
    /\ dl_pc = "raised"
    /\ dl_log[1].outcome = "not_extracted"
    /\ dl_log[Len(dl_log)].outcome = "captcha"

----------------------------------------------------------------------------
(* Responses (SpecResponses) *)

\* C27: whenever an operation of the scraper has returned or raised, every
\* response it obtained from the session manager has been closed.
C27_ResponsesClosed ==
    closed = obtained

----------------------------------------------------------------------------
(* Transport *)

\* the calls that have passed the semaphore and have not left make_request
PastSemaphore ==
    {t \in DOMAIN worker :
        worker[t].pc \in {"rate_limit", "sleeping", "send", "in_flight", "challenged"}}

Finished(t) == worker[t].pc \in {"returned", "raised"}

\* the call ended because no permit came free
TimedOutWaiting(t) == worker[t].pc = "raised" /\ worker[t].took = 0

\* C26: at most MAX_CONCURRENT_REQUESTS calls are past the semaphore at any
\* time, and they are the ones holding the permits that are missing from it;
\* a call that got no permit ends with ScrapingError, has started no request
\* and has released nothing; a call that got its permit releases it exactly
\* once when it ends, however it ends, so that all permits are back when no
\* call is past the semaphore.
C26_PermitsBalanced ==
    /\ Cardinality(PastSemaphore) <= MAX_CONCURRENT_REQUESTS
    /\ request_semaphore + Cardinality(PastSemaphore) = MAX_CONCURRENT_REQUESTS
    /\ \A t \in DOMAIN worker :
         /\ worker[t].took <= 1
         /\ t \in PastSemaphore => worker[t].took = 1 /\ worker[t].gave = 0
         /\ TimedOutWaiting(t) =>
              /\ worker[t].error = "ScrapingError"
              /\ worker[t].requests = 0
              /\ worker[t].gave = 0
         /\ Finished(t) => worker[t].gave = worker[t].took
         /\ worker[t].pc \in {"idle", "acquire"} => worker[t].took = 0 /\ worker[t].gave = 0

\* one call gave up waiting while two others held the permits; those two
\* have ended, one after the retry and one with an exception, and both
\* permits are back
C26_Witness ==
    /\ \A t \in DOMAIN worker : Finished(t)
    /\ \E t \in DOMAIN worker : TimedOutWaiting(t)
    /\ \E t \in DOMAIN worker : worker[t].pc = "returned" /\ worker[t].requests = 2
    /\ \E t \in DOMAIN worker : worker[t].pc = "raised" /\ worker[t].took = 1
    /\ request_semaphore = MAX_CONCURRENT_REQUESTS

\* C28: any two requests sent through the SessionManager start at least
\* min_request_interval apart.
C28_RequestsSpaced == sent.gap >= min_request_interval

\* C29: no session is closed under a request of another call, no request
\* runs on a session that was closed before the request started, and a call
\* sends at most two requests.
C29_SessionNotClosedInUse ==
    /\ ~closures.in_use
    /\ ~sent.on_closed
    /\ \A t \in DOMAIN worker : worker[t].requests <= 2
====
